---- MODULE Spec2Model ----
(***************************************************************************)
(* Prosodic scoring engine of interview-be: app/services/vocal_analysis.py *)
(* (extractor normalisation, segmentation, tone) and                       *)
(* app/services/vocal_feedback.py (sub-scores, total score, payload),      *)
(* driven as in app/services/voice_analysis_service.py.                    *)
(*                                                                         *)
(* Numbers are fixed point integers:                                       *)
(*   times                     milliseconds  (rows round to 3 decimals)    *)
(*   jitter_pct, shimmer_pct   1/1000 %      (rows round to 3 decimals)    *)
(*   hnr_db                    1/1000 dB                                   *)
(*   tremor_score, z-ratio     1/1000                                      *)
(*   speaking_rate_sps         1/100 syll/s  (rows round to 2 decimals)    *)
(*   pause_ratio               1/100                                       *)
(*   medians                   twice the value, so a half stays integral   *)
(*   band scores, sub-scores   1/1000000 (Micro)                           *)
(* None and NaN are the Python None and float('nan').                      *)
(***************************************************************************)
EXTENDS Integers, Sequences, FiniteSets, TLC

VARIABLES
    pc,        \* the step the invocation is at
    err,       \* the exception an operation raised, "none" when none
    tremor,    \* tremor["timeline"]: the rows of eval_tremor
    sp_tl,     \* sp_tl["timeline"]: the rows of eval_speed_pause_timeline
    inton,     \* the summary of robust_eval_intonation
    energy,    \* the summary of eval_energy
    rhythm,    \* the summary of eval_rhythm_timing
    tone,      \* the dict of compute_tone_fixed
    grouped,   \* the dict of detect_grouped_with_cfg
    payload,   \* the dict of build_payload_from_structures
    arg,       \* the arguments of the call under way: those of a function
               \* called on its own, the sound of a pipeline invocation
    res        \* what that call returned

vars == <<pc, err, tremor, sp_tl, inton, energy, rhythm, tone, grouped, payload, arg, res>>

None == 0 - 1000001
NaN == 0 - 1000002
Micro == 1000 * 1000

IsNum(x) == x # None /\ x # NaN

Min(a, b) == IF a <= b THEN a ELSE b
Max(a, b) == IF a >= b THEN a ELSE b
Abs(a) == IF a < 0 THEN 0 - a ELSE a

\* numpy.clip(x, lo, hi) on finite x
Clip(x, lo, hi) == Max(lo, Min(hi, x))

\* Python round(n/d) for d > 0: to nearest, ties to even
RoundHalfEven(n, d) ==
    LET q == n \div d
        r == n % d
    IN  IF 2 * r < d THEN q
        ELSE IF 2 * r > d THEN q + 1
        ELSE IF q % 2 = 0 THEN q ELSE q + 1

RECURSIVE Insert(_, _)
Insert(v, s) ==
    IF s = <<>> THEN <<v>>
    ELSE IF v <= Head(s) THEN <<v>> \o s
    ELSE <<Head(s)>> \o Insert(v, Tail(s))

RECURSIVE Sort(_)
Sort(s) == IF s = <<>> THEN <<>> ELSE Insert(Head(s), Sort(Tail(s)))

HasNaN(s) == \E i \in 1..Len(s) : s[i] = NaN

\* twice the median of a non-empty sequence of finite numbers
Median2(s) ==
    LET vs == Sort(s)
        n == Len(vs)
        mid == n \div 2
    IN  IF n % 2 = 1 THEN 2 * vs[mid + 1] ELSE vs[mid] + vs[mid + 1]

\* vocal_feedback._median (numpy path): None on an empty list, NaN when the
\* list holds a NaN, else the median (returned doubled)
_median(vals) ==
    IF vals = <<>> THEN None
    ELSE IF HasNaN(vals) THEN NaN
    ELSE Median2(vals)

\* Python max(z) on a non-empty list: the running maximum is replaced only
\* when item > max, so a NaN stays when it comes first and is skipped later
RECURSIVE PyMaxFrom(_, _)
PyMaxFrom(cur, s) ==
    IF s = <<>> THEN cur
    ELSE IF cur # NaN /\ Head(s) # NaN /\ Head(s) > cur
         THEN PyMaxFrom(Head(s), Tail(s))
         ELSE PyMaxFrom(cur, Tail(s))

PyMax(s) == PyMaxFrom(Head(s), Tail(s))

\* _clamp_int with int(x) in place of round(x)
ClampIntTruncates(n, d, lo, hi) == Max(lo, Min(hi, n \div d))

\* vocal_feedback._clamp_int on a finite x = n/d
_clamp_int(n, d, lo, hi) == Max(lo, Min(hi, RoundHalfEven(n, d)))

(***************************************************************************)
(* vocal_feedback.py: Config (defaults)                                    *)
(***************************************************************************)
z_max_good == 800
z_max_ok == 1200
z_max_warn == 1600
jitter_penalty_thr == 2500
shimmer_penalty_thr == 9000
hnr_penalty_thr == 12000
penalty_step == 3
floor == 40

\* syll_per_word = 2.25, in 1/100
syll_per_word == 225
good_min == 140
good_max == 170
mid1_min == 120
mid1_max == 139
mid2_min == 171
mid2_max == 185
edge1_min == 100
edge1_max == 119
edge2_min == 186
edge2_max == 200

med_good == 18
med_mid == 25
med_warn == 35

\* Weights, in 1/100
w_tremor == 25
w_pause == 25
w_tone == 25
w_speed == 25

(***************************************************************************)
(* vocal_feedback.py: scoring of the structured input                      *)
(* The Korean labels of the source are written in English:                 *)
(*   "insufficient" is the source's insufficient-data level (jeongbo-bujok),*)
(*   "good" yangho, "slight" yakgan, "caution" juui, "normal" botong,      *)
(*   "excessive" gwada, "adequate" jeokjeong, "adequate~slightly fast",    *)
(*   "fast/slow" ppareum/neurim, "too fast/too slow" gwasok/gwaneut.       *)
(***************************************************************************)
\* a scorer's "None" statistics
NoStats == [present |-> FALSE]

\* [r.get(f) for r in rows if r.get(f) is not None]
Field(rows, f) ==
    SelectSeq([i \in 1..Len(rows) |-> rows[i][f]], LAMBDA v : v # None)

\* the first comparison of x against thr that Python finds true is false for a
\* NaN and treats None as 0: (x or 0) > thr, with x a doubled median
OrZeroGt(x, thr) == IF x = None THEN 0 > thr ELSE IF x = NaN THEN FALSE ELSE x > 2 * thr

\* a tremor scorer that applies the flat penalty once, however many of the
\* three conditions hold
ScoreTremorOnePenalty(rows) ==
    LET z == Field(rows, "tremor_score")
    IN  IF rows = <<>> \/ z = <<>>
        THEN [stats |-> NoStats, score |-> 0, level |-> "insufficient"]
        ELSE
          LET zmax == PyMax(z)
              lt(thr) == zmax # NaN /\ zmax < thr
              hnr == _median(Field(rows, "hnr_db"))
              any == \/ OrZeroGt(_median(Field(rows, "jitter_pct")), jitter_penalty_thr)
                     \/ OrZeroGt(_median(Field(rows, "shimmer_pct")), shimmer_penalty_thr)
                     \/ (IsNum(hnr) /\ hnr < 2 * hnr_penalty_thr)
              base == IF lt(z_max_good) THEN 90
                      ELSE IF lt(z_max_ok) THEN 82
                      ELSE IF lt(z_max_warn) THEN 70 ELSE 55
          IN  [stats |-> [present |-> TRUE, z_max |-> zmax],
               score |-> _clamp_int(base - (IF any THEN penalty_step ELSE 0), 1, floor, 100),
               level |-> IF lt(z_max_ok) THEN "good"
                         ELSE IF lt(z_max_warn) THEN "slight" ELSE "caution"]

\* a tremor scorer that reads the level off the score after the penalties
ScoreTremorLevelByScore(rows) ==
    LET z == Field(rows, "tremor_score")
    IN  IF rows = <<>> \/ z = <<>>
        THEN [stats |-> NoStats, score |-> 0, level |-> "insufficient"]
        ELSE
          LET zmax == PyMax(z)
              lt(thr) == zmax # NaN /\ zmax < thr
              hnr == _median(Field(rows, "hnr_db"))
              n == (IF OrZeroGt(_median(Field(rows, "jitter_pct")), jitter_penalty_thr)
                    THEN 1 ELSE 0)
                   + (IF OrZeroGt(_median(Field(rows, "shimmer_pct")), shimmer_penalty_thr)
                      THEN 1 ELSE 0)
                   + (IF IsNum(hnr) /\ hnr < 2 * hnr_penalty_thr THEN 1 ELSE 0)
              base == IF lt(z_max_good) THEN 90
                      ELSE IF lt(z_max_ok) THEN 82
                      ELSE IF lt(z_max_warn) THEN 70 ELSE 55
              score == _clamp_int(base - penalty_step * n, 1, floor, 100)
          IN  [stats |-> [present |-> TRUE, z_max |-> zmax],
               score |-> score,
               level |-> IF score >= 82 THEN "good"
                         ELSE IF score >= 70 THEN "slight" ELSE "caution"]

_score_tremor_struct(rows) ==
    LET z == Field(rows, "tremor_score")
    IN  IF rows = <<>> \/ z = <<>>
        THEN [stats |-> NoStats, score |-> 0, level |-> "insufficient"]
        ELSE
          LET zmax == PyMax(z)
              stats == [present |-> TRUE,
                        z_max |-> zmax,
                        jitter_pct |-> _median(Field(rows, "jitter_pct")),
                        shimmer_pct |-> _median(Field(rows, "shimmer_pct")),
                        hnr_db |-> _median(Field(rows, "hnr_db"))]
              lt(thr) == zmax # NaN /\ zmax < thr
              base == IF lt(z_max_good) THEN 90
                      ELSE IF lt(z_max_ok) THEN 82
                      ELSE IF lt(z_max_warn) THEN 70 ELSE 55
              level == IF lt(z_max_good) THEN "good"
                       ELSE IF lt(z_max_ok) THEN "good"
                       ELSE IF lt(z_max_warn) THEN "slight" ELSE "caution"
              p1 == IF OrZeroGt(stats.jitter_pct, jitter_penalty_thr) THEN penalty_step ELSE 0
              p2 == IF OrZeroGt(stats.shimmer_pct, shimmer_penalty_thr) THEN penalty_step ELSE 0
              p3 == IF IsNum(stats.hnr_db) /\ stats.hnr_db < 2 * hnr_penalty_thr
                    THEN penalty_step ELSE 0
          IN  [stats |-> stats,
               score |-> _clamp_int(base - p1 - p2 - p3, 1, floor, 100),
               level |-> level]

\* _score_speed_struct returning the words-per-minute value as the score
SpeedScoreIsWpm(rows) ==
    LET sps == Field(rows, "speaking_rate_sps")
    IN  IF rows = <<>> \/ sps = <<>> \/ _median(sps) = NaN
        THEN [raises |-> FALSE, stats |-> NoStats, score |-> 0, level |-> "insufficient"]
        ELSE LET wpm == _clamp_int(_median(sps) * 60 * 100, 200 * syll_per_word, 0, 400)
             IN  [raises |-> FALSE,
                  stats |-> [present |-> TRUE, sps |-> RoundHalfEven(_median(sps), 2),
                             wpm |-> wpm],
                  score |-> wpm, level |-> "adequate"]

\* raises: round() of a NaN median raises ValueError
_score_speed_struct(rows) ==
    LET sps == Field(rows, "speaking_rate_sps")
    IN  IF rows = <<>> \/ sps = <<>>
        THEN [raises |-> FALSE, stats |-> NoStats, score |-> 0, level |-> "insufficient"]
        ELSE IF _median(sps) = NaN
        THEN [raises |-> TRUE, stats |-> NoStats, score |-> 0, level |-> "insufficient"]
        ELSE
          LET sps_avg == _median(sps)
              wpm == _clamp_int(sps_avg * 60 * 100, 200 * syll_per_word, 0, 400)
              in(a, b) == a <= wpm /\ wpm <= b
              score == IF in(good_min, good_max) THEN 88
                       ELSE IF in(mid1_min, mid1_max) \/ in(mid2_min, mid2_max) THEN 82
                       ELSE IF in(edge1_min, edge1_max) \/ in(edge2_min, edge2_max) THEN 74
                       ELSE 60
              level == IF in(good_min, good_max) THEN "adequate"
                       ELSE IF in(mid1_min, mid1_max) \/ in(mid2_min, mid2_max)
                            THEN "adequate~slightly fast"
                       ELSE IF in(edge1_min, edge1_max) \/ in(edge2_min, edge2_max)
                            THEN "fast/slow"
                       ELSE "too fast/too slow"
          IN  [raises |-> FALSE,
               stats |-> [present |-> TRUE, sps |-> RoundHalfEven(sps_avg, 2), wpm |-> wpm],
               score |-> score, level |-> level]

\* info.avg is the doubled median, None when the key is absent
_score_pause_struct(rows) ==
    LET pr == Field(rows, "pause_ratio")
    IN  IF rows = <<>> \/ pr = <<>>
        THEN [info |-> [status |-> "insufficient", avg |-> None], score |-> 80, level |-> "normal"]
        ELSE
          LET p_med == _median(pr)
              le(thr) == p_med # NaN /\ p_med <= 2 * thr
          IN  IF le(med_good)
              THEN [info |-> [status |-> "good", avg |-> p_med], score |-> 85, level |-> "good"]
              ELSE IF le(med_mid)
              THEN [info |-> [status |-> "slight", avg |-> p_med], score |-> 78, level |-> "slight"]
              ELSE IF le(med_warn)
              THEN [info |-> [status |-> "caution", avg |-> p_med], score |-> 70, level |-> "caution"]
              ELSE [info |-> [status |-> "excessive", avg |-> p_med], score |-> 62, level |-> "excessive"]

\* the words of the speed level strings _score_speed_struct returns, as
\* _build_summary's string tests see them
LevelText(level) ==
    CASE level = "adequate" -> <<"jeokjeong">>
      [] level = "adequate~slightly fast" -> <<"jeokjeong", "~", "yakgan", " ", "ppareum">>
      [] level = "fast/slow" -> <<"ppareum", "/", "neurim">>
      [] level = "too fast/too slow" -> <<"gwasok", "/", "gwaneut">>
      [] OTHER -> <<"jeongbo", "bujok">>

\* s.startswith(w) and w in s, on the words of s
StartsWith(text, w) == text # <<>> /\ text[1] = w
Contains(text, w) == \E k \in 1..Len(text) : text[k] = w

\* the speed phrase with the two string tests in the other order
SpeedPhraseFastFirst(s_level) ==
    IF Contains(LevelText(s_level), "ppareum") THEN <<"pace somewhat fast">>
    ELSE IF StartsWith(LevelText(s_level), "jeokjeong") THEN <<"pace adequate">>
    ELSE <<>>

\* the speed phrase of _build_summary
SpeedPhrase(s_level) ==
    IF StartsWith(LevelText(s_level), "jeokjeong") THEN <<"pace adequate">>
    ELSE IF Contains(LevelText(s_level), "ppareum") THEN <<"pace somewhat fast">>
    ELSE <<>>

\* the phrases of the summary, in order ("". join and the tone phrase's text
\* are left as the list and the tone label)
_build_summary(t_level, s_level, p_level, tone_label) ==
    (IF t_level \in {"good", "slight"} THEN <<"overall stable">> ELSE <<>>)
    \o SpeedPhrase(s_level)
    \o (IF p_level = "good" THEN <<"no long silences">> ELSE <<>>)
    \o (IF tone_label # "" THEN <<tone_label>> ELSE <<>>)

\* the weighted sum of the four scores, in 1/100
WeightedSum(t, p, tn, s) == w_tremor * t + w_pause * p + w_tone * tn + w_speed * s

\* build_payload_from_structures with the default Config; tn is the tone dict
build_payload_from_structures(tr, sp, tn) ==
    LET t == _score_tremor_struct(tr)
        s == _score_speed_struct(sp)
        p == _score_pause_struct(sp)
        tone_score == tn.tone_score
    IN  [raises |-> s.raises,
         total_score |-> _clamp_int(WeightedSum(t.score, p.score, tone_score, s.score),
                                    100, 0, 100),
         summary |-> _build_summary(t.level, s.level, p.level, tn.label),
         metrics |-> <<
            [id |-> "tremor", score |-> t.score, level |-> t.level,
             value |-> None, details |-> t.stats],
            [id |-> "pause", score |-> p.score, level |-> p.level,
             value |-> p.info.avg, details |-> NoStats],
            [id |-> "tone", score |-> Min(100, Max(0, tone_score)),
             level |-> IF tone_score >= 80 THEN "good" ELSE "normal",
             value |-> tn.label,
             details |-> [tone_score |-> tn.tone_score, coverage |-> tn.coverage,
                          drivers |-> tn.drivers]],
            [id |-> "speed", score |-> s.score, level |-> s.level,
             value |-> IF s.stats.present THEN s.stats.wpm ELSE None,
             details |-> s.stats] >>]

(***************************************************************************)
(* vocal_analysis.py: TONE_CFG and the tone score                          *)
(***************************************************************************)
\* f0_range_target (4.0, 8.5), ending_slope_ok (1.2, 3.5) and
\* pitch_var_target (1.2, 4.0), in 1/100
f0_range_lo == 400
f0_range_hi == 850
ending_slope_lo == 120
ending_slope_hi == 350
pitch_var_lo == 120
pitch_var_hi == 400
\* intonation_sub_weights, in 1/100
isw_range == 65
isw_slope == 20
isw_var == 15
\* stress_rate_target (0.08, 0.20) in 1/1000, energy_var_db_target (2.5, 6.0)
\* in 1/100, energy_balance_tol 0.15 in 1/1000
stress_rate_lo == 80
stress_rate_hi == 200
energy_var_lo == 250
energy_var_hi == 600
energy_balance_tol == 150
\* npvi_target (30.0, 65.0) in 1/10, syll_cv_target (0.12, 0.28) and
\* regularity_target (0.65, 0.90) in 1/1000
npvi_lo == 300
npvi_hi == 650
syll_cv_lo == 120
syll_cv_hi == 280
regularity_lo == 650
regularity_hi == 900
\* weights, in 1/100
tw_intonation == 40
tw_energy == 30
tw_rhythm == 30
\* monotone_guards: range_lo 3.2 and var_lo 1.2 in 1/100, cap 0.50 in Micro
guard_range_lo == 320
guard_var_lo == 120
guard_cap == 500000
\* the slope at or under which the slope score is damped (0.2, in 1/100)
\* and the damping factor 0.9, in 1/10
flat_slope == 20
flat_factor == 9

\* 1.0 - dist / max(hi - lo, 1e-6) clipped to [0, 1], for dist > 0 (x outside
\* the band); in Micro. A span of 1e-6 is under any distance of the grid.
OutsideScore(dist, lo, hi) ==
    IF hi - lo <= 0 \/ dist >= hi - lo THEN 0
    ELSE Clip(((hi - lo - dist) * Micro) \div (hi - lo), 0, Micro)

band_score(x, lo, hi) ==
    IF ~IsNum(x) THEN 0
    ELSE IF lo <= x /\ x <= hi THEN Micro
    ELSE IF x < lo THEN OutsideScore(lo - x, lo, hi)
    ELSE OutsideScore(x - hi, lo, hi)

\* _safe_band measuring the distance below the band with the wrong sign
SafeBandNoAbs(x, lo, hi) ==
    IF ~IsNum(x) THEN None
    ELSE IF lo <= x /\ x <= hi THEN Micro
    ELSE IF x > hi THEN OutsideScore(x - hi, lo, hi)
    ELSE Micro

_safe_band(x, lo, hi) ==
    IF ~IsNum(x) THEN None
    ELSE IF lo <= x /\ x <= hi THEN Micro
    ELSE OutsideScore(Abs(IF x > hi THEN x - hi ELSE lo - x), lo, hi)

\* sum of the elements of a sequence of numbers
RECURSIVE SumSeq(_)
SumSeq(s) == IF s = <<>> THEN 0 ELSE Head(s) + SumSeq(Tail(s))

\* the weights np.average pairs with the available parts: the first
\* len(parts) of [range, slope, var]
SubWeights(n) == SubSeq(<<isw_range, isw_slope, isw_var>>, 1, n)

\* isumm.get(key, 0) < thr
GetLt(v, thr) == IF v = None THEN 0 < thr ELSE IF v = NaN THEN FALSE ELSE v < thr

\* isumm holds a number, NaN, or None (the key is absent) per key
_intonation_subscore(isumm) ==
    LET s_range == _safe_band(isumm.f0_range_st, f0_range_lo, f0_range_hi)
        s_var == _safe_band(isumm.pitch_var_st, pitch_var_lo, pitch_var_hi)
        s_slope0 == _safe_band(isumm.ending_slope_hz_per_s, ending_slope_lo, ending_slope_hi)
        slope_val == isumm.ending_slope_hz_per_s
        s_slope == IF slope_val # None /\ slope_val # NaN /\ Abs(slope_val) <= flat_slope
                   THEN ((IF s_slope0 = None THEN 0 ELSE s_slope0) * flat_factor) \div 10
                   ELSE s_slope0
        parts == SelectSeq(<<s_range, s_slope, s_var>>, LAMBDA v : v # None)
        w == SubWeights(Len(parts))
        sc0 == IF parts = <<>> THEN 0
               ELSE SumSeq([i \in 1..Len(parts) |-> w[i] * parts[i]]) \div SumSeq(w)
        sc == IF GetLt(isumm.f0_range_st, guard_range_lo)
                 /\ GetLt(isumm.pitch_var_st, guard_var_lo)
              THEN Min(sc0, guard_cap) ELSE sc0
    IN  Clip(sc, 0, Micro)

\* np.mean of the available parts, None when there is none
MeanOrNone(three) ==
    LET parts == SelectSeq(three, LAMBDA v : v # None)
    IN  IF parts = <<>> THEN None ELSE SumSeq(parts) \div Len(parts)

label_from_eff(n, coverage) ==
    IF coverage > 0 /\ n >= 800000 * coverage THEN "confident and stable"
    ELSE IF coverage > 0 /\ n >= 650000 * coverage THEN "mostly natural"
    ELSE IF coverage > 0 /\ n >= 500000 * coverage THEN "somewhat monotone/unbalanced"
    ELSE "monotone/unstable"

\* a tone score renormalised over the available components: 100 * eff
ToneRenormalised(isumm, esumm, rsumm) ==
    LET sc_intonation == _intonation_subscore(isumm)
        sc_energy == MeanOrNone(<<
            _safe_band(esumm.stress_rate, stress_rate_lo, stress_rate_hi),
            _safe_band(esumm.energy_var_db, energy_var_lo, energy_var_hi),
            _safe_band(esumm.balance, 0, energy_balance_tol) >>)
        sc_rhythm == MeanOrNone(<<
            _safe_band(rsumm.npvi, npvi_lo, npvi_hi),
            _safe_band(rsumm.syll_cv, syll_cv_lo, syll_cv_hi),
            _safe_band(rsumm.regularity, regularity_lo, regularity_hi) >>)
        tone100 == tw_intonation * sc_intonation
                   + (IF sc_energy # None THEN tw_energy * sc_energy ELSE 0)
                   + (IF sc_rhythm # None THEN tw_rhythm * sc_rhythm ELSE 0)
        coverage == tw_intonation
                    + (IF sc_energy # None THEN tw_energy ELSE 0)
                    + (IF sc_rhythm # None THEN tw_rhythm ELSE 0)
    IN  [tone_score |-> RoundHalfEven(tone100, coverage * (Micro \div 100)),
         label |-> label_from_eff(tone100, coverage),
         coverage |-> coverage,
         drivers |-> [inton |-> isumm, energy |-> esumm, rhythm |-> rsumm]]

\* compute_tone_fixed(inton, energy, rhythm); each argument is a summary
\* record. tone100 is 100 * tone_0_1 in Micro.
compute_tone_fixed(isumm, esumm, rsumm) ==
    LET sc_intonation == _intonation_subscore(isumm)
        sc_energy == MeanOrNone(<<
            _safe_band(esumm.stress_rate, stress_rate_lo, stress_rate_hi),
            _safe_band(esumm.energy_var_db, energy_var_lo, energy_var_hi),
            _safe_band(esumm.balance, 0, energy_balance_tol) >>)
        sc_rhythm == MeanOrNone(<<
            _safe_band(rsumm.npvi, npvi_lo, npvi_hi),
            _safe_band(rsumm.syll_cv, syll_cv_lo, syll_cv_hi),
            _safe_band(rsumm.regularity, regularity_lo, regularity_hi) >>)
        tone100 == tw_intonation * sc_intonation
                   + (IF sc_energy # None THEN tw_energy * sc_energy ELSE 0)
                   + (IF sc_rhythm # None THEN tw_rhythm * sc_rhythm ELSE 0)
        coverage == tw_intonation
                    + (IF sc_energy # None THEN tw_energy ELSE 0)
                    + (IF sc_rhythm # None THEN tw_rhythm ELSE 0)
    IN  [tone_score |-> RoundHalfEven(tone100, Micro),
         label |-> label_from_eff(tone100, coverage),
         coverage |-> coverage,
         drivers |-> [inton |-> isumm, energy |-> esumm, rhythm |-> rsumm]]

(***************************************************************************)
(* Operations                                                              *)
(***************************************************************************)
NoTone == [tone_score |-> 0, label |-> "", coverage |-> 0, drivers |-> <<>>]
NoGrouped == [present |-> FALSE]
NoPayload == [present |-> FALSE]
NoCall == <<>>

\* the locals of _analyze_voice_core while no invocation runs
NoPipeline ==
    /\ err = "none"
    /\ tremor = <<>>
    /\ sp_tl = <<>>
    /\ inton = [f0_range_st |-> None, ending_slope_hz_per_s |-> None, pitch_var_st |-> None]
    /\ energy = [stress_rate |-> None, energy_var_db |-> None, balance |-> None]
    /\ rhythm = [npvi |-> None, syll_cv |-> None, regularity |-> None]
    /\ tone = NoTone
    /\ grouped = NoGrouped
    /\ payload = NoPayload

pipevars == <<err, tremor, sp_tl, inton, energy, rhythm, tone, grouped, payload>>

\* tone = compute_tone_fixed(inton, energy, rhythm), then on to step nxt
ComputeTone(nxt) ==
    /\ pc = "tone"
    /\ tone' = compute_tone_fixed(inton, energy, rhythm)
    /\ pc' = nxt
    /\ UNCHANGED <<err, tremor, sp_tl, inton, energy, rhythm, grouped, payload, arg, res>>

\* payload = build_payload_from_structures(tremor, sp_tl, tone), then on to
\* step nxt
BuildPayload(nxt) ==
    /\ pc = "payload"
    /\ LET r == build_payload_from_structures(tremor, sp_tl, tone)
       IN  IF r.raises
           THEN /\ err' = "ValueError"
                /\ pc' = "raised"
                /\ payload' = payload
           ELSE /\ err' = err
                /\ pc' = nxt
                /\ payload' = r
    /\ UNCHANGED <<tremor, sp_tl, inton, energy, rhythm, tone, grouped, arg, res>>

(***************************************************************************)
(* SpecPayload: build_payload_from_structures on the timelines a caller    *)
(* hands it (empty ones and rows that miss a field included) and the tone  *)
(* dict compute_tone_fixed returns.                                        *)
(***************************************************************************)
MaxTremorRows == 2
MaxSpeedRows == 1

Row(ts, j, s, h) == [tremor_score |-> ts, jitter_pct |-> j, shimmer_pct |-> s, hnr_db |-> h]

\* a row with no field, an unvoiced window (all undefined), a calm window, a
\* rough one (all three penalties), and a window in the "slight" z band
TremorRows ==
    { Row(None, None, None, None),
      Row(NaN, NaN, NaN, NaN),
      Row(500, 1000, 5000, 20000),
      Row(1000, 3000, 10000, 10000),
      Row(1300, 3000, 5000, 20000) }

SpRow(sps, pr) == [speaking_rate_sps |-> sps, pause_ratio |-> pr]

\* a row with no field, then 6.0, 5.0, 4.0 and 2.0 syllables per second
SpeedRows ==
    { SpRow(None, None), SpRow(600, 10), SpRow(500, 20), SpRow(400, 30), SpRow(200, 50),
      SpRow(NaN, 20) }

SeqsUpTo(S, n) == UNION { [1..k -> S] : k \in 0..n }

ISumm(r, sl, v) == [f0_range_st |-> r, ending_slope_hz_per_s |-> sl, pitch_var_st |-> v]
ESumm(st, ev, b) == [stress_rate |-> st, energy_var_db |-> ev, balance |-> b]
RSumm(n, cv, rg) == [npvi |-> n, syll_cv |-> cv, regularity |-> rg]

\* eval_energy and eval_rhythm_timing return all three values or three Nones
NoEnergy == ESumm(None, None, None)
NoRhythm == RSumm(None, None, None)

InitPayload ==
    /\ pc = "tone"
    /\ err = "none"
    /\ tremor \in SeqsUpTo(TremorRows, MaxTremorRows)
    /\ sp_tl \in SeqsUpTo(SpeedRows, MaxSpeedRows)
    /\ inton \in { ISumm(0, 0, 0), ISumm(600, 200, 200) }
    /\ energy \in { NoEnergy, ESumm(100, 400, 50) }
    /\ rhythm \in { NoRhythm }
    /\ tone = NoTone
    /\ grouped = NoGrouped
    /\ payload = NoPayload
    /\ arg = NoCall
    /\ res = NoCall

NextPayload == ComputeTone("payload") \/ BuildPayload("done")

SpecPayload == InitPayload /\ [][NextPayload]_vars

(***************************************************************************)
(* Claims checked under SpecPayload                                        *)
(***************************************************************************)
Returned == pc = "done"

MetricIds == <<"tremor", "pause", "tone", "speed">>

\* C1: every payload build_payload_from_structures returns has a total_score
\* in [0,100] and four metric scores (tremor, pause, tone, speed) in [0,100],
\* whatever the timelines (empty ones included) and the tone dict.
C1_ScoresInRange ==
    Returned =>
        /\ payload.total_score \in 0..100
        /\ \A i \in 1..4 :
              /\ payload.metrics[i].id = MetricIds[i]
              /\ payload.metrics[i].score \in 0..100

\* C1 witness: a payload returned for a non-empty tremor timeline and an
\* empty speed/pause timeline, with a positive total
C1_Witness ==
    /\ Returned
    /\ tremor # <<>>
    /\ sp_tl = <<>>
    /\ payload.total_score > 0
    /\ payload.metrics[1].score > 0

NoUsable(rows, f) == Field(rows, f) = <<>>

\* C5: a sub-score with no usable input (empty timeline, or no row carrying
\* its field) is returned without raising, with a zero or neutral score, and
\* the payload reports the insufficient-data level for that metric.
C5_InsufficientLevel ==
    Returned =>
        /\ NoUsable(tremor, "tremor_score") =>
              /\ payload.metrics[1].score = 0
              /\ payload.metrics[1].level = "insufficient"
        /\ NoUsable(sp_tl, "speaking_rate_sps") =>
              /\ payload.metrics[4].score = 0
              /\ payload.metrics[4].level = "insufficient"
        /\ NoUsable(sp_tl, "pause_ratio") =>
              /\ payload.metrics[2].score \in {0, 80}
              /\ payload.metrics[2].level = "insufficient"

\* C8: total_score is the weighted sum 0.25*tremor + 0.25*pause + 0.25*tone
\* + 0.25*speed rounded to an integer and clamped to [0,100]: it is within
\* 0.5 of the exact sum whenever that sum lies in [0,100].
C8_TotalIsWeightedSum ==
    Returned =>
        LET sum4 == payload.metrics[1].score + payload.metrics[2].score
                    + tone.tone_score + payload.metrics[4].score
        IN  /\ payload.total_score \in 0..100
            /\ (0 <= sum4 /\ sum4 <= 400) =>
                  /\ 4 * payload.total_score - sum4 <= 2
                  /\ sum4 - 4 * payload.total_score <= 2

\* C8 witness: a returned total whose exact weighted sum is not an integer
C8_Witness ==
    /\ Returned
    /\ (payload.metrics[1].score + payload.metrics[2].score
        + tone.tone_score + payload.metrics[4].score) % 4 = 3

(***************************************************************************)
(* SpecBand: band_score and _safe_band called on two inputs x and y and on *)
(* the two edges of a target band of TONE_CFG.                             *)
(***************************************************************************)
BandMaxK == 20

\* inputs on a grid of 0.5 (in 1/100), on both sides of every band and up to
\* more than one band width away, and the two non-finite inputs
BandXs == { 50 * k : k \in (0 - BandMaxK)..BandMaxK } \cup { None, NaN }

\* f0_range_target, pitch_var_target and (0, energy_balance_tol)
Bands ==
    { <<f0_range_lo, f0_range_hi>>, <<pitch_var_lo, pitch_var_hi>>,
      <<0, energy_balance_tol>> }

InitBand ==
    /\ pc = "band"
    /\ arg \in { [x |-> x, y |-> y, lo |-> b[1], hi |-> b[2]] :
                    x \in BandXs, y \in BandXs, b \in Bands }
    /\ res = NoCall
    /\ NoPipeline

CallBandScore ==
    /\ pc = "band"
    /\ res' = [fn |-> "band_score",
               x |-> band_score(arg.x, arg.lo, arg.hi),
               y |-> band_score(arg.y, arg.lo, arg.hi),
               lo |-> band_score(arg.lo, arg.lo, arg.hi),
               hi |-> band_score(arg.hi, arg.lo, arg.hi)]
    /\ pc' = "scored"
    /\ UNCHANGED <<pipevars, arg>>

CallSafeBand ==
    /\ pc = "band"
    /\ res' = [fn |-> "_safe_band",
               x |-> _safe_band(arg.x, arg.lo, arg.hi),
               y |-> _safe_band(arg.y, arg.lo, arg.hi),
               lo |-> _safe_band(arg.lo, arg.lo, arg.hi),
               hi |-> _safe_band(arg.hi, arg.lo, arg.hi)]
    /\ pc' = "scored"
    /\ UNCHANGED <<pipevars, arg>>

NextBand == CallBandScore \/ CallSafeBand

SpecBand == InitBand /\ [][NextBand]_vars

\* x and y are finite, outside [lo, hi] on the same side, y the farther one
Farther ==
    /\ IsNum(arg.x) /\ IsNum(arg.y)
    /\ \/ arg.x < arg.lo /\ arg.y < arg.x
       \/ arg.x > arg.hi /\ arg.y > arg.x

\* C4 (as stated): score(lo) = score(hi) = 1.0, and of two finite inputs
\* outside the band on the same side the farther one scores strictly lower.
C4_StrictlyDecreasing ==
    pc = "scored" =>
        /\ res.lo = Micro /\ res.hi = Micro
        /\ Farther => res.y < res.x

\* C4 (amended): score(lo) = score(hi) = 1.0, and of two finite inputs outside
\* the band on the same side the farther one never scores higher, and scores
\* strictly lower as long as the nearer one scores above 0; from one band
\* width away on, the score is clipped to 0 and stays there.
C4_DecreasingUntilZero ==
    pc = "scored" =>
        /\ res.lo = Micro /\ res.hi = Micro
        /\ Farther =>
              /\ res.y <= res.x
              /\ res.x > 0 => res.y < res.x
              /\ res.x = 0 => res.y = 0

\* C4 witness: _safe_band scored a nearer input above 0 and a farther one,
\* more than a band width away, at 0
C4_Witness ==
    /\ pc = "scored"
    /\ res.fn = "_safe_band"
    /\ Farther
    /\ res.x > 0
    /\ res.y = 0

(***************************************************************************)
(* SpecTone: compute_tone_fixed on the summaries of the three extractors.  *)
(***************************************************************************)
\* f0_range_st and pitch_var_st on both sides of the monotone floors
\* (3.2 and 1.2), ending slopes flat, in band and falling
ToneIntons ==
    { [f0_range_st |-> r, ending_slope_hz_per_s |-> sl, pitch_var_st |-> v] :
        r \in { None, 0, 300, 319, 320, 600 },
        sl \in { 0, 200, 0 - 500 },
        v \in { 0, 100, 119, 120, 200 } }

\* no energy summary, one inside all three bands, one outside all three
ToneEnergies ==
    { [stress_rate |-> None, energy_var_db |-> None, balance |-> None],
      [stress_rate |-> 100, energy_var_db |-> 400, balance |-> 50],
      [stress_rate |-> 500, energy_var_db |-> 50, balance |-> 1000] }

ToneRhythms ==
    { [npvi |-> None, syll_cv |-> None, regularity |-> None],
      [npvi |-> 400, syll_cv |-> 200, regularity |-> 800],
      [npvi |-> 1500, syll_cv |-> 900, regularity |-> 100] }

InitTone ==
    /\ pc = "tone"
    /\ err = "none"
    /\ tremor = <<>>
    /\ sp_tl = <<>>
    /\ inton \in ToneIntons
    /\ energy \in ToneEnergies
    /\ rhythm \in ToneRhythms
    /\ tone = NoTone
    /\ grouped = NoGrouped
    /\ payload = NoPayload
    /\ arg = NoCall
    /\ res = NoCall

NextTone == ComputeTone("toned")

SpecTone == InitTone /\ [][NextTone]_vars

\* both monotone guards of _intonation_subscore hold for the summary
MonotoneGuard ==
    /\ GetLt(inton.f0_range_st, guard_range_lo)
    /\ GetLt(inton.pitch_var_st, guard_var_lo)

\* C9: whenever f0_range_st is below 3.2 and pitch_var_st is below 1.2, the
\* tone score compute_tone_fixed returns is at most 50 (the guard cap 0.50),
\* for every energy summary and every rhythm summary.
C9_MonotoneCap ==
    (pc = "toned" /\ MonotoneGuard) => tone.tone_score <= 50

(***************************************************************************)
(* vocal_analysis.py: sliding_windows, safe_percentile and the             *)
(* normalisation of eval_tremor. The Praat measurements of a window        *)
(* (jitter, shimmer, HNR, FM and AM band energy) are inputs; the band      *)
(* energies are whole numbers of their unit.                               *)
(***************************************************************************)
\* eval_tremor(win=1.0, hop=0.5), in ms
tremor_win == 1000
tremor_hop == 500
\* PROSODY_CFG: references in 1/1000, tremor_weights in 1/100
jitter_ref_pct == 2000
shimmer_ref_pct == 6000
hnr_good_db == 18000
trw_jitter == 18
trw_shimmer == 17
trw_hnr == 10
trw_fm == 35
trw_am == 20
amfm_ref_percentile == 90

\* the windows from t on: while t < dur, (t, min(dur, t + win)), t += hop
RECURSIVE WindowsFrom(_, _, _, _)
WindowsFrom(t, dur, win, hop) ==
    IF t >= dur THEN <<>>
    ELSE <<[start |-> t, end |-> Min(dur, t + win)]>> \o WindowsFrom(t + hop, dur, win, hop)

\* the windows from t on, none of them cut at dur
RECURSIVE UncutFrom(_, _, _, _)
UncutFrom(t, dur, win, hop) ==
    IF t >= dur THEN <<>>
    ELSE <<[start |-> t, end |-> t + win]>> \o UncutFrom(t + hop, dur, win, hop)

\* sliding_windows without t1 = min(dur, t + win)
sliding_windows_uncut(dur, win, hop) == UncutFrom(0, dur, win, hop)

sliding_windows(dur, win, hop) == WindowsFrom(0, dur, win, hop)

\* 100 * np.percentile(finite values of x, p) (linear interpolation), None
\* when no value is finite
safe_percentile(x, p) ==
    LET arr == Sort(SelectSeq(x, IsNum))
        n == Len(arr)
        pos == p * (n - 1)
        lo == pos \div 100
        fr == pos % 100
    IN  IF n = 0 THEN None
        ELSE IF fr = 0 THEN 100 * arr[lo + 1]
        ELSE arr[lo + 1] * (100 - fr) + arr[lo + 2] * fr

\* safe_percentile(pool, P) or 1.0, times 100
RefOrOne(pool) ==
    LET r == safe_percentile(pool, amfm_ref_percentile)
    IN  IF r = None \/ r = 0 THEN 100 ELSE r

\* round(i + n/d) for 0 <= n and d > 0, ties to even
RoundMixed(i, n, d) ==
    LET b == i + (n \div d)
        r == n % d
    IN  IF 2 * r < d THEN b
        ELSE IF 2 * r > d THEN b + 1
        ELSE IF b % 2 = 0 THEN b ELSE b + 1

\* the common denominator of the jitter, shimmer and HNR terms of
\* 1000 * tremor
TremorDen == 1800

\* round(tremor, 3) of a row, in 1/1000: the weighted sum of the five clipped
\* measures; NaN when jitter, shimmer or HNR is NaN (np.clip keeps a NaN)
tremor_score(r, fm_ref, am_ref) ==
    IF ~IsNum(r.jitter_pct) \/ ~IsNum(r.shimmer_pct) \/ ~IsNum(r.hnr_db) THEN NaN
    ELSE
      LET cj == Clip(r.jitter_pct, 0, jitter_ref_pct)
          cs == Clip(r.shimmer_pct, 0, shimmer_ref_pct)
          ch == Clip(hnr_good_db - r.hnr_db, 0, hnr_good_db)
          nf == Clip(100 * r.fm_4_12, 0, fm_ref)
          na == Clip(100 * r.am_4_12, 0, am_ref)
          \* 1000 * (W.jitter*sj + W.shimmer*ss + W.hnr*sh) = a / TremorDen
          a == (10 * TremorDen * trw_jitter * cj) \div jitter_ref_pct
               + (10 * TremorDen * trw_shimmer * cs) \div shimmer_ref_pct
               + (10 * TremorDen * trw_hnr * ch) \div hnr_good_db
          \* 1000 * (W.fm*fmN + W.am*amN) = g / d
          g == 10 * (trw_fm * nf * am_ref + trw_am * na * fm_ref)
          d == fm_ref * am_ref
      IN  RoundMixed((a \div TremorDen) + (g \div d),
                     (a % TremorDen) * d + (g % d) * TremorDen, TremorDen * d)

\* eval_tremor's timeline from the measured rows
eval_tremor(rows) ==
    LET fm_ref == RefOrOne([i \in 1..Len(rows) |-> rows[i].fm_4_12])
        am_ref == RefOrOne([i \in 1..Len(rows) |-> rows[i].am_4_12])
    IN  [i \in 1..Len(rows) |->
            [start |-> rows[i].start, end |-> rows[i].end,
             jitter_pct |-> rows[i].jitter_pct, shimmer_pct |-> rows[i].shimmer_pct,
             hnr_db |-> rows[i].hnr_db,
             fm_4_12 |-> rows[i].fm_4_12, am_4_12 |-> rows[i].am_4_12,
             tremor_score |-> tremor_score(rows[i], fm_ref, am_ref)]]

(***************************************************************************)
(* SpecAM: two recordings A and B that differ only in the AM band energy   *)
(* of their windows (B's is never lower), each normalised by eval_tremor   *)
(* and scored by _score_tremor_struct.                                     *)
(***************************************************************************)
MaxAMWin == 2
MaxEnergy == 2

\* what Praat measures on a steady tone and on a rough voice
Voices ==
    { [jitter_pct |-> 500, shimmer_pct |-> 2000, hnr_db |-> 20000],
      [jitter_pct |-> 3000, shimmer_pct |-> 10000, hnr_db |-> 10000] }

\* the measured rows of a recording of n windows
Measured(n, v, fm, am) ==
    LET w == sliding_windows(tremor_hop * n, tremor_win, tremor_hop)
    IN  [i \in 1..n |->
            [start |-> w[i].start, end |-> w[i].end,
             jitter_pct |-> v.jitter_pct, shimmer_pct |-> v.shimmer_pct,
             hnr_db |-> v.hnr_db, fm_4_12 |-> fm[i], am_4_12 |-> am[i]]]

\* the pairs of recordings of n windows
AMArgs(n) ==
    { [A |-> Measured(n, v, fm, am),
       B |-> Measured(n, v, fm, [i \in 1..n |-> am[i] + up[i]])] :
         v \in Voices, fm \in [1..n -> {0, MaxEnergy}],
         am \in [1..n -> 0..MaxEnergy], up \in [1..n -> 0..1] }

InitAM ==
    /\ pc = "am"
    /\ arg \in UNION { AMArgs(n) : n \in 1..MaxAMWin }
    /\ res = NoCall
    /\ NoPipeline

\* eval_tremor then _score_tremor_struct, on A and on B
ScoreRecordings ==
    /\ pc = "am"
    /\ res' = [A |-> _score_tremor_struct(eval_tremor(arg.A)),
               B |-> _score_tremor_struct(eval_tremor(arg.B))]
    /\ pc' = "am_scored"
    /\ UNCHANGED <<pipevars, arg>>

NextAM == ScoreRecordings

SpecAM == InitAM /\ [][NextAM]_vars

\* B's AM band energy is higher than A's in every window
HigherAM == \A i \in 1..Len(arg.A) : arg.B[i].am_4_12 > arg.A[i].am_4_12

\* C10: if recording B differs from A only in higher per-window AM band
\* energies, the tremor sub-score (eval_tremor's normalisation, then
\* _score_tremor_struct) is strictly lower for B than for A.
C10_HigherAMLowerScore ==
    (pc = "am_scored" /\ HigherAM) => res.B.score < res.A.score

(***************************************************************************)
(* vocal_analysis.py: tremor_z_segments. A z-ratio is kept as              *)
(* floor(1000 * z), which decides z >= z_hi and z < z_lo exactly; Inf is   *)
(* the float inf of a division by a zero baseline.                         *)
(***************************************************************************)
\* Z_PARAMS, times in ms and ratios in 1/1000
win_sec == 4000
z_hi == 1100
z_lo == 600
min_dur == 600
merge_gap == 300
min_consec_frames == 3

Z_PARAMS ==
    [win_sec |-> win_sec, z_hi |-> z_hi, z_lo |-> z_lo, min_dur |-> min_dur,
     merge_gap |-> merge_gap, min_consec_frames |-> min_consec_frames]

Inf == 2000 * Micro

\* twice the center _ensure_center adds: (start + end) / 2
Center2(r) == r.start + r.end

\* four times np.median(np.diff(centers)), for two rows or more
Hop4(rows) ==
    Median2([i \in 1..(Len(rows) - 1) |-> Center2(rows[i + 1]) - Center2(rows[i])])

\* Series.rolling(window=k, min_periods=mp, center=True).median() at row i,
\* doubled: the window is rows i - k//2 .. i + (k-1)//2, NaN values are
\* skipped, and fewer than mp values give NaN
RollingMedian2(s, k, mp, i) ==
    LET w == SelectSeq(SubSeq(s, Max(1, i - (k \div 2)), Min(Len(s), i + ((k - 1) \div 2))),
                       IsNum)
    IN  IF Len(w) < mp THEN NaN ELSE Median2(w)

\* Series.bfill(): a NaN takes the next value that is not NaN
bfill(s) ==
    [i \in 1..Len(s) |->
        IF s[i] # NaN THEN s[i]
        ELSE IF \E j \in i..Len(s) : s[j] # NaN
        THEN s[CHOOSE j \in i..Len(s) : s[j] # NaN /\ \A l \in i..(j - 1) : s[l] = NaN]
        ELSE NaN]

\* Series.ffill(): a NaN takes the last value before it that is not NaN
ffill(s) ==
    [i \in 1..Len(s) |->
        IF s[i] # NaN THEN s[i]
        ELSE IF \E j \in 1..i : s[j] # NaN
        THEN s[CHOOSE j \in 1..i : s[j] # NaN /\ \A l \in (j + 1)..i : s[l] = NaN]
        ELSE NaN]

\* med.replace(0, med.median()), times 4 (med2 holds doubled medians)
Baseline4(med2) ==
    LET nums == SelectSeq(med2, IsNum)
    IN  [i \in 1..Len(med2) |->
            IF med2[i] = NaN THEN NaN
            ELSE IF med2[i] = 0 THEN Median2(nums)
            ELSE 2 * med2[i]]

\* tremor_score / baseline as pandas divides: x/0 is inf, 0/0 is NaN
ZRatio(score, b4) ==
    IF ~IsNum(score) \/ b4 = NaN THEN NaN
    ELSE IF b4 = 0 THEN (IF score = 0 THEN NaN ELSE Inf)
    ELSE (4000 * score) \div b4

\* the column f as a sequence of values
Column(f) == f \o <<>>

\* the z column of the timeline for rolling window k
ZColumn(rows, k) ==
    LET s == Column([i \in 1..Len(rows) |->
                 IF IsNum(rows[i].tremor_score) THEN rows[i].tremor_score ELSE NaN])
        mp == Max(3, k \div 3)
        roll == Column([i \in 1..Len(rows) |-> RollingMedian2(s, k, mp, i)])
        med == Column(ffill(Column(bfill(roll))))
        base == Column(Baseline4(med))
    IN  Column([i \in 1..Len(rows) |-> ZRatio(s[i], base[i])])

\* np.nanmax(z[first..last])
RECURSIVE NanMax(_, _, _)
NanMax(z, first, last) ==
    IF first = last THEN z[first]
    ELSE LET m == NanMax(z, first + 1, last)
         IN  IF z[first] = NaN THEN m ELSE IF m = NaN THEN z[first] ELSE Max(z[first], m)

\* RunSeg taking the end of the window after the run as the end of the run
RunSegEndsAtExit(rows, z, first, last) ==
    [start |-> rows[first].start, end |-> rows[Min(last + 1, Len(rows))].end,
     rows |-> [i \in 1..(last - first + 1) |-> first + i - 1],
     z_max |-> NanMax(z, first, last)]

\* RunSeg taking the window that closes the run into the run
RunSegThroughExit(rows, z, first, last) ==
    LET stop == Min(last + 1, Len(rows))
    IN  [start |-> rows[first].start, end |-> rows[stop].end,
         rows |-> [i \in 1..(stop - first + 1) |-> first + i - 1],
         z_max |-> NanMax(z, first, stop)]

\* the segment dict of the run of rows first..last (rows: their indices)
RunSeg(rows, z, first, last) ==
    [start |-> rows[first].start, end |-> rows[last].end,
     rows |-> [i \in 1..(last - first + 1) |-> first + i - 1],
     z_max |-> NanMax(z, first, last)]

\* segs with the run first..last appended when it lasts min_dur or more
Closed(rows, z, p, segs, first, last) ==
    IF rows[last].end - rows[first].start >= p.min_dur
    THEN Append(segs, RunSeg(rows, z, first, last))
    ELSE segs

NoRun == [in_run |-> FALSE, run_start |-> 0, consec |-> 0]

\* the scan loop from row i on, st = (in_run, run_start, consec), and the
\* close of a run still open after the last row
RECURSIVE ScanFrom(_, _, _, _, _, _, _)
ScanFrom(i, rows, z, valid, p, st, segs) ==
    IF i > Len(rows)
    THEN IF st.in_run THEN Closed(rows, z, p, segs, st.run_start, Len(rows)) ELSE segs
    ELSE IF ~valid[i] \/ z[i] = NaN
    THEN ScanFrom(i + 1, rows, z, valid, p, NoRun,
                  IF st.in_run THEN Closed(rows, z, p, segs, st.run_start, i - 1) ELSE segs)
    ELSE IF ~st.in_run
    THEN IF z[i] >= p.z_hi
         THEN IF st.consec + 1 >= p.min_consec_frames
              THEN ScanFrom(i + 1, rows, z, valid, p,
                            [in_run |-> TRUE, run_start |-> i - (st.consec + 1) + 1,
                             consec |-> st.consec + 1], segs)
              ELSE ScanFrom(i + 1, rows, z, valid, p,
                            [st EXCEPT !.consec = st.consec + 1], segs)
         ELSE ScanFrom(i + 1, rows, z, valid, p, [st EXCEPT !.consec = 0], segs)
    ELSE IF z[i] < p.z_lo
    THEN ScanFrom(i + 1, rows, z, valid, p, NoRun,
                  Closed(rows, z, p, segs, st.run_start, i - 1))
    ELSE ScanFrom(i + 1, rows, z, valid, p, st, segs)

\* the merge test with the comparison turned around
MergesWhenFar(prev, s, gap) == s.start - prev.end > gap

\* s["start"] - merged[-1]["end"] <= merge_gap
Mergeable(prev, s, gap) == s.start - prev.end <= gap

\* the merge loop over the segments left, merged so far in m
RECURSIVE MergeSegs(_, _, _)
MergeSegs(segs, m, gap) ==
    IF segs = <<>> THEN m
    ELSE LET s == Head(segs)
             prev == m[Len(m)]
         IN  IF m = <<>> THEN MergeSegs(Tail(segs), <<s>>, gap)
             ELSE IF Mergeable(prev, s, gap)
             THEN MergeSegs(Tail(segs),
                            [m EXCEPT ![Len(m)] =
                                [start |-> prev.start, end |-> s.end,
                                 rows |-> prev.rows \o s.rows,
                                 z_max |-> Max(prev.z_max, s.z_max)]], gap)
             ELSE MergeSegs(Tail(segs), Append(m, s), gap)

\* tremor_z_segments(timeline_df, **p, voiced_mask, dt); valid[i] is the
\* mask frame of row i's center (all TRUE without a mask). rows is sorted
\* by center, as sliding_windows produces it. Besides the merged list it
\* returns, the record carries the z column and the runs before merging.
\* A DataFrame built from an empty list has no columns: _ensure_center
\* raises KeyError; a rolling window under min_periods raises ValueError.
tremor_z_segments(rows, valid, p) ==
    IF rows = <<>>
    THEN [raises |-> "KeyError", z |-> <<>>, segs |-> <<>>, merged |-> <<>>]
    ELSE IF Len(rows) < 3
    THEN [raises |-> "none", z |-> <<>>, segs |-> <<>>, merged |-> <<>>]
    ELSE
      LET k == Max(1, (4 * p.win_sec) \div Hop4(rows))
      IN  IF Max(3, k \div 3) > k
          THEN [raises |-> "ValueError", z |-> <<>>, segs |-> <<>>, merged |-> <<>>]
          ELSE LET z == ZColumn(rows, k)
                   segs == ScanFrom(1, rows, z, valid, p, NoRun, <<>>)
               IN  [raises |-> "none", z |-> z, segs |-> segs,
                    merged |-> MergeSegs(segs, <<>>, p.merge_gap)]

(***************************************************************************)
(* SpecSeg: tremor_z_segments on synthetic tremor-score timelines laid out *)
(* as eval_tremor lays its windows out: a quiet stretch, a rising spike    *)
(* (each window twice the one before), a quiet stretch, a second spike and *)
(* a quiet tail, with at most one window masked as unvoiced.               *)
(***************************************************************************)
MaxSegWin == 12
MaxRamp == 10

Flat(n) == [j \in 1..n |-> 1]
Ramp(n) == [j \in 1..n |-> 2 ^ j]

Shapes ==
    { sc \in { Flat(a) \o Ramp(h1) \o Flat(g) \o Ramp(h2) \o Flat(b) :
                 a \in 0..1, h1 \in 0..MaxRamp, g \in 0..1, h2 \in 0..5, b \in 0..1 } :
        Len(sc) <= MaxSegWin }

\* the timeline rows of the scores sc
ScoreTimeline(sc) ==
    LET w == sliding_windows(tremor_hop * Len(sc), tremor_win, tremor_hop)
    IN  [i \in 1..Len(sc) |->
            [start |-> w[i].start, end |-> w[i].end, tremor_score |-> sc[i]]]

SegArgs ==
    UNION { { [rows |-> ScoreTimeline(sc),
               valid |-> [i \in 1..Len(sc) |-> i # inv],
               p |-> [Z_PARAMS EXCEPT !.win_sec = ws]] :
                 inv \in 0..Len(sc), ws \in { win_sec \div 2, win_sec } } :
            sc \in Shapes }

InitSeg ==
    /\ pc = "seg"
    /\ arg \in SegArgs
    /\ res = NoCall
    /\ NoPipeline

CallTremorZSegments ==
    /\ pc = "seg"
    /\ res' = tremor_z_segments(arg.rows, arg.valid, arg.p)
    /\ pc' = "segmented"
    /\ UNCHANGED <<pipevars, arg>>

NextSeg == CallTremorZSegments

SpecSeg == InitSeg /\ [][NextSeg]_vars

Segmented == pc = "segmented" /\ res.raises = "none" /\ Len(arg.rows) >= 3

\* rows i .. i + min_consec_frames - 1 are the only ones at or above z_hi,
\* the row after them is below z_lo, and the spike lasts min_dur or more
SpikeAt(i) ==
    LET m == arg.p.min_consec_frames
        spike == i..(i + m - 1)
    IN  /\ i + m <= Len(arg.rows)
        /\ \A j \in spike : arg.valid[j] /\ res.z[j] # NaN /\ res.z[j] >= arg.p.z_hi
        /\ arg.valid[i + m] /\ res.z[i + m] # NaN /\ res.z[i + m] < arg.p.z_lo
        /\ \A j \in (1..Len(arg.rows)) \ spike : res.z[j] # NaN /\ res.z[j] < arg.p.z_hi
        /\ arg.rows[i + m - 1].end - arg.rows[i].start >= arg.p.min_dur

\* C2: a z-ratio timeline below z_hi everywhere except one run of exactly
\* min_consec_frames consecutive windows above z_hi, immediately followed by
\* a window below z_lo, yields exactly one segment, from the start of the
\* first spike window to the end of the last spike window.
C2_OneSegmentPerSpike ==
    Segmented =>
        \A i \in 1..Len(arg.rows) :
            SpikeAt(i) =>
                /\ Len(res.merged) = 1
                /\ res.merged[1].start = arg.rows[i].start
                /\ res.merged[1].end = arg.rows[i + arg.p.min_consec_frames - 1].end

\* C2 witness: a timeline with such a spike, in its middle, and its segment
C2_Witness ==
    /\ Segmented
    /\ \E i \in 2..Len(arg.rows) :
          SpikeAt(i) /\ i + arg.p.min_consec_frames < Len(arg.rows)
    /\ Len(res.merged) = 1

\* start of accepted run j + 1 minus end of accepted run j
RunGap(j) == res.segs[j + 1].start - res.segs[j].end

\* C3: two accepted runs whose gap is smaller than merge_gap are reported as
\* one segment from the first run's start to the second run's end; two
\* accepted runs whose gap is larger than merge_gap are reported as two
\* separate segments.
C3_MergeByGap ==
    Segmented =>
        /\ (Len(res.segs) = 2 /\ RunGap(1) < arg.p.merge_gap) =>
              /\ Len(res.merged) = 1
              /\ res.merged[1].start = res.segs[1].start
              /\ res.merged[1].end = res.segs[2].end
        /\ (Len(res.segs) = 2 /\ RunGap(1) > arg.p.merge_gap) =>
              /\ Len(res.merged) = 2
              /\ \A j \in 1..2 :
                    /\ res.merged[j].start = res.segs[j].start
                    /\ res.merged[j].end = res.segs[j].end
        /\ \A j \in 1..(Len(res.segs) - 1) :
              /\ RunGap(j) < arg.p.merge_gap =>
                    \E o \in 1..Len(res.merged) :
                        /\ res.merged[o].start <= res.segs[j].start
                        /\ res.merged[o].end >= res.segs[j + 1].end
              /\ RunGap(j) > arg.p.merge_gap =>
                    \E o \in 1..(Len(res.merged) - 1) :
                        /\ res.merged[o].end = res.segs[j].end
                        /\ res.merged[o + 1].start = res.segs[j + 1].start

\* C3 witness: two accepted runs closer than merge_gap, merged into one
C3_Witness ==
    /\ Segmented
    /\ Len(res.segs) = 2
    /\ RunGap(1) < arg.p.merge_gap
    /\ Len(res.merged) = 1

\* two accepted runs farther apart than merge_gap, kept apart
TwoRunsApart ==
    /\ Segmented
    /\ Len(res.segs) = 2
    /\ RunGap(1) > arg.p.merge_gap
    /\ Len(res.merged) = 2

(***************************************************************************)
(* vocal_analysis.py: _merge_tremor_speed, add_speed_smoothing,            *)
(* detect_speed_spans and detect_grouped_with_cfg. Rates and ratios are in *)
(* 1/100; a smoothed value is a doubled rolling median.                    *)
(***************************************************************************)
\* PROSODY_CFG win, hop (ms), speaking_band and pause_ratio_band
prosody_win == 500
prosody_hop == 200
speaking_lo == 350
speaking_hi == 500
pause_band_lo == 15
pause_band_hi == 35
\* SPEED_PARAMS, VOICED_THR, FAST_MAX_PAUSE, SLOW_MIN_PAUSE
fast_hi == 610
fast_lo == 560
slow_lo == 260
slow_hi == 320
min_hold == 1000
speed_merge_gap == 500
VOICED_THR == 65
FAST_MAX_PAUSE == 26
SLOW_MIN_PAUSE == 25
\* add_speed_smoothing(df, sec=1.0), in ms, and merge tolerance floor 0.2 s
smooth_sec == 1000
tol_floor == 200

\* a DataFrame cell: NaN where the row has no such key or holds None
Cell(r, f) == IF f \in DOMAIN r THEN (IF r[f] = None THEN NaN ELSE r[f]) ELSE NaN

\* four times hop_guess: the median center step, PROSODY_CFG["hop"] for
\* fewer than two rows
HopGuess4(rows) == IF Len(rows) > 1 THEN Hop4(rows) ELSE 4 * prosody_hop

\* merge_asof(direction="nearest", tolerance=tol): the index of the speed
\* row whose center is nearest to the doubled center c2 and within tol
\* (the earlier one on a tie), 0 when there is none
NearestRow(c2, s, hop4) ==
    LET dist(j) == Abs(Center2(s[j]) - c2)
        near == { j \in 1..Len(s) : 4 * dist(j) <= Max(hop4, 8 * tol_floor) }
    IN  IF near = {} THEN 0
        ELSE CHOOSE j \in near :
                \A l \in near : dist(j) < dist(l) \/ (dist(j) = dist(l) /\ j <= l)

\* _merge_tremor_speed: a tremor row with the speed columns of its nearest
\* speed row (both timelines are sorted by center and not empty)
_merge_tremor_speed(t, s) ==
    Column([i \in 1..Len(t) |->
        LET j == NearestRow(Center2(t[i]), s, HopGuess4(t))
            sp(f) == IF j = 0 THEN NaN ELSE Cell(s[j], f)
        IN  [start |-> t[i].start, end |-> t[i].end,
             speaking_rate_sps |-> sp("speaking_rate_sps"),
             articulation_rate_sps |-> sp("articulation_rate_sps"),
             pause_ratio |-> sp("pause_ratio"),
             voiced_ratio |-> sp("voiced_ratio")]])

\* add_speed_smoothing's roll_med of a column: centered rolling median of
\* k = max(3, int(sec / hop)) rows, bfill, ffill; doubled
roll_med(df, f) ==
    LET k == Max(3, (4 * smooth_sec) \div HopGuess4(df))
        col == Column([i \in 1..Len(df) |-> df[i][f]])
        med == Column([i \in 1..Len(df) |-> RollingMedian2(col, k, Max(3, k \div 3), i)])
    IN  Column(ffill(Column(bfill(med))))

\* the rows with the _sm columns detect_speed_spans reads
add_speed_smoothing(df) ==
    LET speak == roll_med(df, "speaking_rate_sps")
        artic == roll_med(df, "articulation_rate_sps")
        pause == roll_med(df, "pause_ratio")
    IN  Column([i \in 1..Len(df) |->
            [start |-> df[i].start, end |-> df[i].end,
             speaking_rate_sps_sm |-> speak[i],
             articulation_rate_sps_sm |-> artic[i],
             pause_ratio_sm |-> pause[i],
             voiced_ratio |-> df[i].voiced_ratio]])

\* ok_fast / ok_slow testing the rate alone
ok_enter_by_rate(mode, r) ==
    /\ r.articulation_rate_sps_sm # NaN
    /\ IF mode = "fast"
       THEN r.articulation_rate_sps_sm > 2 * fast_hi
       ELSE r.articulation_rate_sps_sm < 2 * slow_lo

\* ok_fast / ok_slow on a smoothed row; a comparison with a NaN is false
ok_enter(mode, r) ==
    /\ r.articulation_rate_sps_sm # NaN /\ r.pause_ratio_sm # NaN /\ r.voiced_ratio # NaN
    /\ r.voiced_ratio >= VOICED_THR
    /\ IF mode = "fast"
       THEN r.articulation_rate_sps_sm > 2 * fast_hi /\ r.pause_ratio_sm < 2 * FAST_MAX_PAUSE
       ELSE r.articulation_rate_sps_sm < 2 * slow_lo /\ r.pause_ratio_sm > 2 * SLOW_MIN_PAUSE

\* the two exit tests exchanged: a fast run closed by ex_slow, a slow run by
\* ex_fast
ex_exit_swapped(mode, val) == IF mode = "fast" THEN val > 2 * slow_hi ELSE val < 2 * fast_lo

\* ex_fast / ex_slow on a finite smoothed rate
ex_exit(mode, val) == IF mode = "fast" THEN val < 2 * fast_lo ELSE val > 2 * slow_hi

NoSpan == [open |-> FALSE, start |-> 0, end |-> 0, rows |-> <<>>]

\* segs with the span cur appended however short it is
HeldOrNot(cur, segs) ==
    Append(segs, [start |-> cur.start, end |-> cur.end, rows |-> cur.rows])

\* segs with the span cur appended when it held for min_hold or more
Held(cur, segs) ==
    IF cur.end - cur.start >= min_hold
    THEN Append(segs, [start |-> cur.start, end |-> cur.end, rows |-> cur.rows])
    ELSE segs

\* _collect's loop from row i on, and the close of a span still open
RECURSIVE CollectFrom(_, _, _, _, _)
CollectFrom(i, df, mode, cur, segs) ==
    IF i > Len(df) THEN (IF cur.open THEN Held(cur, segs) ELSE segs)
    ELSE IF df[i].articulation_rate_sps_sm = NaN
    THEN CollectFrom(i + 1, df, mode, NoSpan, IF cur.open THEN Held(cur, segs) ELSE segs)
    ELSE IF ~cur.open
    THEN IF ok_enter(mode, df[i])
         THEN CollectFrom(i + 1, df, mode,
                          [open |-> TRUE, start |-> df[i].start, end |-> df[i].end,
                           rows |-> <<i>>], segs)
         ELSE CollectFrom(i + 1, df, mode, cur, segs)
    ELSE IF ex_exit(mode, df[i].articulation_rate_sps_sm)
    THEN CollectFrom(i + 1, df, mode, NoSpan, Held(cur, segs))
    ELSE CollectFrom(i + 1, df, mode,
                     [cur EXCEPT !.end = df[i].end, !.rows = Append(cur.rows, i)], segs)

\* a merge loop that keeps every held span as it is
AppendSpans(segs, m) == m \o segs

\* _collect's merge loop: spans at most merge_gap apart become one
RECURSIVE MergeSpans(_, _)
MergeSpans(segs, m) ==
    IF segs = <<>> THEN m
    ELSE LET sp == Head(segs)
             prev == m[Len(m)]
         IN  IF m = <<>> THEN MergeSpans(Tail(segs), <<sp>>)
             ELSE IF sp.start - prev.end <= speed_merge_gap
             THEN MergeSpans(Tail(segs),
                             [m EXCEPT ![Len(m)] =
                                 [start |-> prev.start, end |-> sp.end,
                                  rows |-> prev.rows \o sp.rows]])
             ELSE MergeSpans(Tail(segs), Append(m, sp))

_collect(df, mode) == MergeSpans(CollectFrom(1, df, mode, NoSpan, <<>>), <<>>)

\* round(t, 2) of a time in ms
Round2(t) == 10 * RoundHalfEven(t, 10)

\* pandas median of the values vals scaled by unit (NaN values skipped),
\* rounded to the hundredth: NaN when no value is left
MedianOf(vals, unit) ==
    LET nums == SelectSeq(vals, IsNum)
    IN  IF nums = <<>> THEN NaN ELSE RoundHalfEven(Median2(nums), 2 * unit)

\* summarize: a non-finite median is reported as None
summarize(df, segs) ==
    LET stat(sg, f) ==
            LET m == MedianOf([i \in 1..Len(sg.rows) |-> df[sg.rows[i]][f]], 2)
            IN  IF m = NaN THEN None ELSE m
    IN  Column([n \in 1..Len(segs) |->
            [start |-> Round2(segs[n].start), end |-> Round2(segs[n].end),
             speaking_med |-> stat(segs[n], "speaking_rate_sps_sm"),
             artic_med |-> stat(segs[n], "articulation_rate_sps_sm"),
             pause_med |-> stat(segs[n], "pause_ratio_sm")]])

\* detect_speed_spans(df) on the merged rows: (fast, slow)
detect_speed_spans(df) ==
    LET sm == add_speed_smoothing(df)
    IN  [fast |-> summarize(sm, _collect(sm, "fast")),
         slow |-> summarize(sm, _collect(sm, "slow"))]

\* spans(flag_col)'s loop from row i on: maximal stretches of flagged rows
RECURSIVE SpansFrom(_, _, _, _)
SpansFrom(i, flag, cur, segs) ==
    IF i > Len(flag) THEN (IF cur = <<>> THEN segs ELSE Append(segs, cur))
    ELSE IF flag[i] THEN SpansFrom(i + 1, flag, Append(cur, i), segs)
    ELSE SpansFrom(i + 1, flag, <<>>, IF cur = <<>> THEN segs ELSE Append(segs, cur))

\* spans("flag_pause_high") on the merged rows: pause_ratio > phi, a NaN
\* never flagged; the medians are rounded but never turned into None
pause_high_spans(df) ==
    LET flag == Column([i \in 1..Len(df) |->
                    df[i].pause_ratio # NaN /\ df[i].pause_ratio > pause_band_hi])
        segs == SpansFrom(1, flag, <<>>, <<>>)
        stat(rows, f) == MedianOf([i \in 1..Len(rows) |-> df[rows[i]][f]], 1)
    IN  Column([n \in 1..Len(segs) |->
            [start |-> Round2(df[Head(segs[n])].start),
             end |-> Round2(df[segs[n][Len(segs[n])]].end),
             speaking_med |-> stat(segs[n], "speaking_rate_sps"),
             artic_med |-> stat(segs[n], "articulation_rate_sps"),
             pause_med |-> stat(segs[n], "pause_ratio")]])

\* median of column f over the rows of a segment, doubled, NaN skipped
SegMedian2(t, rows, f) ==
    LET nums == SelectSeq([i \in 1..Len(rows) |-> Cell(t[rows[i]], f)], IsNum)
    IN  IF nums = <<>> THEN NaN ELSE Median2(nums)

\* maximum of column f over the rows of a segment, NaN skipped
SegMax(t, rows, f) ==
    LET vals == { Cell(t[rows[i]], f) : i \in 1..Len(rows) } \ { NaN }
    IN  IF vals = {} THEN NaN ELSE CHOOSE m \in vals : \A x \in vals : x <= m

\* round(n / d) of a value that may be NaN or Inf
RoundCell(n, d) == IF n = NaN \/ n = Inf THEN n ELSE RoundHalfEven(n, d)

\* the tremor_events entry of a segment: medians to 3, 2 and 1 decimals
\* (1/1000, 1/100 % and 1/10 dB), z_max to 2 decimals (1/100)
tremor_event(t, sg) ==
    [start |-> Round2(sg.start), end |-> Round2(sg.end),
     tremor_med |-> RoundCell(SegMedian2(t, sg.rows, "tremor_score"), 2),
     tremor_max |-> SegMax(t, sg.rows, "tremor_score"),
     jitter_med_pct |-> RoundCell(SegMedian2(t, sg.rows, "jitter_pct"), 20),
     shimmer_med_pct |-> RoundCell(SegMedian2(t, sg.rows, "shimmer_pct"), 20),
     hnr_med_db |-> RoundCell(SegMedian2(t, sg.rows, "hnr_db"), 200),
     z_max |-> RoundCell(sg.z_max, 10)]

\* detect_grouped_with_cfg(sound, tremor, sp_tl): valid is the voiced mask
\* at the center of each tremor row. A timeline that is an empty list makes
\* a DataFrame without columns, on which _ensure_center raises KeyError.
detect_grouped_with_cfg(valid, t, s) ==
    IF t = <<>> \/ s = <<>>
    THEN [raises |-> "KeyError"]
    ELSE
      LET merged == _merge_tremor_speed(t, s)
          z == tremor_z_segments(t, valid, Z_PARAMS)
          speed == detect_speed_spans(merged)
      IN  IF z.raises # "none" THEN [raises |-> z.raises]
          ELSE [raises |-> "none",
                tremor_events |-> Column([n \in 1..Len(z.merged) |->
                                      tremor_event(t, z.merged[n])]),
                speed_fast |-> speed.fast,
                speed_slow |-> speed.slow,
                pause_low |-> <<>>,
                pause_high |-> pause_high_spans(merged)]

(***************************************************************************)
(* vocal_analysis.py: eval_speed_pause_timeline on the intensity series    *)
(* Praat returns: frames [t, v] with t in ms and v in whole dB.            *)
(***************************************************************************)
\* PROSODY_CFG syllable_min_sep (ms) and pause_db_drop (dB)
syllable_min_sep == 120
pause_db_drop == 6

\* speaking = vI >= med - pause_db_drop, with med the centered rolling median
\* of 9 frames (3 at least), bfill, ffill; a comparison with a NaN is false
SpeakingMask(vI) ==
    LET roll == Column([k \in 1..Len(vI) |-> RollingMedian2(vI, 9, 3, k)])
        med == Column(ffill(Column(bfill(roll))))
    IN  Column([k \in 1..Len(vI) |->
            med[k] # NaN /\ 2 * vI[k] >= med[k] - 2 * pause_db_drop])

\* the frames _syllable_peaks' loop looks at whose slope is a strict local
\* maximum. The slope into frame j is dv(j) / dt(j); the slope into the
\* first frame is 0.
PeakCandidates(tI, vI) ==
    LET dv(j) == IF j = 1 THEN 0 ELSE vI[j] - vI[j - 1]
        dt(j) == IF j = 1 THEN 1 ELSE Max(tI[j] - tI[j - 1], 1)
        less(a, b) == dv(a) * dt(b) < dv(b) * dt(a)
    IN  { i \in 2..(Len(tI) - 1) : less(i - 1, i) /\ less(i + 1, i) }

\* a loop that measures min_sep from the previous local maximum, kept or not
KeepPeaksAfterCandidate(tI, cand) ==
    LET acc == { c \in cand : \A o \in cand :
                    o < c => tI[c] - tI[o] >= syllable_min_sep }
    IN  Column([k \in 1..Cardinality(acc) |->
                  tI[CHOOSE c \in acc : Cardinality({ o \in acc : o <= c }) = k]])

\* the loop over the candidates cand left, in time order: the first is a
\* peak, and those less than min_sep after it are passed over
RECURSIVE KeepPeaks(_, _)
KeepPeaks(tI, cand) ==
    IF cand = {} THEN <<>>
    ELSE LET i == CHOOSE c \in cand : \A o \in cand : c <= o
         IN  <<tI[i]>> \o KeepPeaks(tI, { c \in cand : tI[c] - tI[i] >= syllable_min_sep })

_syllable_peaks(tI, vI) ==
    IF Len(tI) < 3 THEN <<>> ELSE KeepPeaks(tI, PeakCandidates(tI, vI))

\* the timeline rows of a sound of D ms with intensity frames fr
eval_speed_pause_timeline(D, fr) ==
    LET tI == Column([k \in 1..Len(fr) |-> fr[k].t])
        vI == Column([k \in 1..Len(fr) |-> fr[k].v])
        speaking == SpeakingMask(vI)
        peaks == _syllable_peaks(tI, vI)
        w == sliding_windows(D, prosody_win, prosody_hop)
        in(i) == { k \in 1..Len(tI) : tI[k] >= w[i].start /\ tI[k] <= w[i].end }
        pr(i) == IF in(i) = {} THEN 0
                 ELSE RoundHalfEven(100 * Cardinality({ k \in in(i) : ~speaking[k] }),
                                    Cardinality(in(i)))
        nsy(i) == Cardinality({ k \in 1..Len(peaks) :
                                  peaks[k] >= w[i].start /\ peaks[k] <= w[i].end })
        sps(i) == RoundHalfEven(100000 * nsy(i), w[i].end - w[i].start)
    IN  Column([i \in 1..Len(w) |->
            [start |-> w[i].start, end |-> w[i].end,
             speaking_rate_sps |-> sps(i),
             articulation_rate_sps |-> sps(i),
             pause_ratio |-> pr(i),
             voiced_ratio |-> 100 - pr(i)]])

(***************************************************************************)
(* _analyze_voice_core, step by step. arg is the sound: its duration       *)
(* (dur), what Praat measures in each tremor window (frames), whether the  *)
(* voiced mask holds at the window's center (voiced), the intensity series *)
(* (intensity), and the three prosody summaries.                           *)
(***************************************************************************)
\* tremor = eval_tremor(sound)
EvalTremor ==
    /\ pc = "tremor"
    /\ tremor' = eval_tremor(arg.frames)
    /\ pc' = "speed"
    /\ UNCHANGED <<err, sp_tl, inton, energy, rhythm, tone, grouped, payload, arg, res>>

\* sp_tl = eval_speed_pause_timeline(sound)
EvalSpeedPause ==
    /\ pc = "speed"
    /\ sp_tl' = eval_speed_pause_timeline(arg.dur, arg.intensity)
    /\ pc' = "inton"
    /\ UNCHANGED <<err, tremor, inton, energy, rhythm, tone, grouped, payload, arg, res>>

\* inton = robust_eval_intonation(sound)
EvalIntonation ==
    /\ pc = "inton"
    /\ inton' = arg.inton
    /\ pc' = "energy"
    /\ UNCHANGED <<err, tremor, sp_tl, energy, rhythm, tone, grouped, payload, arg, res>>

\* energy = eval_energy(sound)
EvalEnergy ==
    /\ pc = "energy"
    /\ energy' = arg.energy
    /\ pc' = "rhythm"
    /\ UNCHANGED <<err, tremor, sp_tl, inton, rhythm, tone, grouped, payload, arg, res>>

\* rhythm = eval_rhythm_timing(sound)
EvalRhythm ==
    /\ pc = "rhythm"
    /\ rhythm' = arg.rhythm
    /\ pc' = "tone"
    /\ UNCHANGED <<err, tremor, sp_tl, inton, energy, tone, grouped, payload, arg, res>>

\* grouped = detect_grouped_with_cfg(sound, tremor, sp_tl), then on to step
\* nxt
DetectGrouped(nxt) ==
    /\ pc = "grouped"
    /\ LET g == detect_grouped_with_cfg(arg.voiced, tremor, sp_tl)
       IN  IF g.raises # "none"
           THEN /\ err' = g.raises
                /\ pc' = "raised"
                /\ grouped' = grouped
           ELSE /\ err' = err
                /\ pc' = nxt
                /\ grouped' = g
    /\ UNCHANGED <<tremor, sp_tl, inton, energy, rhythm, tone, payload, arg, res>>

\* payload["grouped"] = grouped; return payload
AttachGrouped ==
    /\ pc = "attach"
    /\ payload' = [total_score |-> payload.total_score, summary |-> payload.summary,
                   metrics |-> payload.metrics, grouped |-> grouped]
    /\ pc' = "done"
    /\ UNCHANGED <<err, tremor, sp_tl, inton, energy, rhythm, tone, grouped, arg, res>>

(***************************************************************************)
(* Spec: _analyze_voice_core on short recordings (each tremor window a     *)
(* steady, a rough or an unvoiced one) and on longer ones that are steady  *)
(* but for three windows in the middle, speaking in one of five intensity  *)
(* profiles.                                                               *)
(***************************************************************************)
MaxWin == 3
SteadyLen == 3

\* a window with too few glottal periods: Praat's jitter, shimmer and
\* harmonicity are undefined
Unvoiced == [jitter_pct |-> NaN, shimmer_pct |-> NaN, hnr_db |-> NaN]
Steady == [jitter_pct |-> 500, shimmer_pct |-> 2000, hnr_db |-> 20000]

WindowKinds == Voices \cup { Unvoiced }

Windowings ==
    UNION { [1..n -> WindowKinds] : n \in 1..MaxWin }
    \cup { [i \in 1..SteadyLen |-> Steady] \o mid \o [i \in 1..SteadyLen |-> Steady] :
             mid \in [1..3 -> WindowKinds] }

\* the measured rows of the windows vs, with band energy e where a window
\* has any (no FM energy without a pitch)
MeasuredWindows(vs, e) ==
    LET w == sliding_windows(tremor_hop * Len(vs), tremor_win, tremor_hop)
    IN  [i \in 1..Len(vs) |->
            [start |-> w[i].start, end |-> w[i].end,
             jitter_pct |-> vs[i].jitter_pct, shimmer_pct |-> vs[i].shimmer_pct,
             hnr_db |-> vs[i].hnr_db,
             fm_4_12 |-> IF vs[i] = Unvoiced THEN 0 ELSE e, am_4_12 |-> e]]

\* silence, four syllables a second, eight a second, and two a second with
\* silences of 150 ms and of 200 ms: the time step (ms) and the repeated dB
\* pattern
SpeechProfiles ==
    { [dt |-> 50, pat |-> <<0>>],
      [dt |-> 50, pat |-> <<60, 66, 62, 58, 57>>],
      [dt |-> 40, pat |-> <<60, 66, 57>>],
      [dt |-> 50, pat |-> <<60, 60, 60, 60, 60, 60, 60, 40, 40, 40>>],
      [dt |-> 50, pat |-> <<60, 60, 60, 60, 60, 60, 40, 40, 40, 40>>] }

\* the intensity frames of D ms of speech in profile sp
IntensityFrames(D, sp) ==
    [k \in 1..(D \div sp.dt) |->
        [t |-> sp.dt * k - (sp.dt \div 2), v |-> sp.pat[((k - 1) % Len(sp.pat)) + 1]]]

\* the summaries of a sound without measurable prosody and of a lively one
Prosodies ==
    { [inton |-> ISumm(0, 0, 0), energy |-> NoEnergy, rhythm |-> NoRhythm],
      [inton |-> ISumm(600, 200, 200), energy |-> ESumm(100, 400, 50),
       rhythm |-> RSumm(400, 200, 800)] }

Sounds ==
    { [dur |-> tremor_hop * Len(vs),
       frames |-> MeasuredWindows(vs, e),
       voiced |-> [i \in 1..Len(vs) |-> vs[i] # Unvoiced],
       intensity |-> IntensityFrames(tremor_hop * Len(vs), sp),
       inton |-> pr.inton, energy |-> pr.energy, rhythm |-> pr.rhythm] :
         vs \in Windowings, e \in {0, MaxEnergy}, sp \in SpeechProfiles, pr \in Prosodies }

Init ==
    /\ pc = "tremor"
    /\ arg \in Sounds
    /\ res = NoCall
    /\ NoPipeline

Next ==
    \/ EvalTremor
    \/ EvalSpeedPause
    \/ EvalIntonation
    \/ EvalEnergy
    \/ EvalRhythm
    \/ ComputeTone("grouped")
    \/ DetectGrouped("payload")
    \/ BuildPayload("attach")
    \/ AttachGrouped

Spec == Init /\ [][Next]_vars

(***************************************************************************)
(* Claims checked under Spec                                               *)
(***************************************************************************)
\* neither NaN nor infinite (None is not a number)
Finite(x) == x # NaN /\ x # Inf

AllFinite(r, fields) == \A f \in fields : Finite(r[f])

EventsFinite(events, fields) == \A n \in 1..Len(events) : AllFinite(events[n], fields)

SpanStats == {"start", "end", "speaking_med", "artic_med", "pause_med"}

\* C6: no numeric field of the payload _analyze_voice_core returns (the
\* total, the four metric scores, their values and details, and the
\* statistics of every event in grouped) is NaN or infinite, whatever the
\* windows measure, windows with undefined jitter, shimmer or HNR included.
C6_NoNaNInPayload ==
    pc = "done" =>
        /\ Finite(payload.total_score)
        /\ \A i \in 1..4 : Finite(payload.metrics[i].score)
        /\ Finite(payload.metrics[2].value)
        /\ Finite(payload.metrics[4].value)
        /\ payload.metrics[1].details.present =>
              AllFinite(payload.metrics[1].details,
                        {"z_max", "jitter_pct", "shimmer_pct", "hnr_db"})
        /\ AllFinite(payload.metrics[3].details, {"tone_score", "coverage"})
        /\ payload.metrics[4].details.present =>
              AllFinite(payload.metrics[4].details, {"sps", "wpm"})
        /\ EventsFinite(payload.grouped.tremor_events,
                        {"start", "end", "tremor_med", "tremor_max", "jitter_med_pct",
                         "shimmer_med_pct", "hnr_med_db", "z_max"})
        /\ EventsFinite(payload.grouped.speed_fast, SpanStats)
        /\ EventsFinite(payload.grouped.speed_slow, SpanStats)
        /\ EventsFinite(payload.grouped.pause_high, SpanStats)

\* a returned payload that reports a tremor event and a fast span
EventsReported ==
    /\ pc = "done"
    /\ payload.grouped.tremor_events # <<>>
    /\ payload.grouped.speed_fast # <<>>

(***************************************************************************)
(* SpecGrouped: a caller that holds the two timelines (either may be an    *)
(* empty list) and the prosody summaries builds the tone, the payload and  *)
(* then the grouped events.                                                *)
(***************************************************************************)
\* the caller's speed/pause timeline covers two tremor hops
GroupedDur == 2 * tremor_hop

GroupedTremors ==
    { <<>> } \cup { eval_tremor(MeasuredWindows(vs, 0)) :
                      vs \in UNION { [1..n -> WindowKinds] : n \in 1..MaxWin } }

GroupedSpeeds ==
    { <<>> } \cup { eval_speed_pause_timeline(GroupedDur, IntensityFrames(GroupedDur, sp)) :
                      sp \in SpeechProfiles }

InitGrouped ==
    /\ pc = "tone"
    /\ err = "none"
    /\ tremor \in GroupedTremors
    /\ sp_tl \in GroupedSpeeds
    /\ \E pr \in Prosodies :
          inton = pr.inton /\ energy = pr.energy /\ rhythm = pr.rhythm
    /\ tone = NoTone
    /\ grouped = NoGrouped
    /\ payload = NoPayload
    /\ arg = [voiced |-> [i \in 1..Len(tremor) |-> TRUE]]
    /\ res = NoCall

NextGrouped ==
    \/ ComputeTone("payload")
    \/ BuildPayload("grouped")
    \/ DetectGrouped("done")

SpecGrouped == InitGrouped /\ [][NextGrouped]_vars

(***************************************************************************)
(* Claims checked under SpecGrouped                                        *)
(***************************************************************************)
\* C7: build_payload_from_structures never raises and returns total_score,
\* summary and four metrics with ids tremor, pause, tone, speed in that
\* order, for empty and non-empty timelines alike; and with empty timelines
\* tremor_z_segments and the span detectors return empty event lists rather
\* than raising.
C7_NeverRaises ==
    /\ pc # "raised"
    /\ pc \in {"grouped", "done"} =>
          /\ DOMAIN payload = {"raises", "total_score", "summary", "metrics"}
          /\ Len(payload.metrics) = 4
          /\ \A i \in 1..4 : payload.metrics[i].id = MetricIds[i]
    /\ (pc = "done" /\ tremor = <<>> /\ sp_tl = <<>>) =>
          /\ grouped.tremor_events = <<>>
          /\ grouped.speed_fast = <<>>
          /\ grouped.speed_slow = <<>>
          /\ grouped.pause_high = <<>>

\* the payload of two empty timelines: returned, all four metrics present
EmptyTimelinesPayload ==
    /\ pc = "grouped"
    /\ tremor = <<>> /\ sp_tl = <<>>
    /\ Len(payload.metrics) = 4

(***************************************************************************)
(* SpecTwice: the three detectors run twice on the timelines a caller      *)
(* holds. tremor and sp_tl are the caller's objects; each detector works   *)
(* on timeline_df.copy() / df.copy().                                      *)
(***************************************************************************)
\* a detector that adds the center column to the caller's DataFrame itself
EnsureCenterInPlace(df) ==
    [i \in 1..Len(df) |->
        [f \in DOMAIN df[i] \cup {"center"} |->
            IF f = "center" THEN (df[i].start + df[i].end) \div 2 ELSE df[i][f]]]

\* the caller's DataFrame after a detector ran on it: the detector copies
\* it first (_ensure_center(df.copy())) and sort_values, rolling and concat
\* return new objects
CallerTimeline(df) == df

\* the merged lists of the three detectors on the timelines t and s
Detections(valid, t, s) ==
    LET merged == _merge_tremor_speed(t, s)
        speed == detect_speed_spans(merged)
    IN  [tremor |-> tremor_z_segments(t, valid, Z_PARAMS).merged,
         fast |-> speed.fast,
         slow |-> speed.slow,
         pause_high |-> pause_high_spans(merged)]

TwiceWindowings ==
    [1..MaxWin -> WindowKinds]
    \cup { [i \in 1..SteadyLen |-> Steady] \o mid \o [i \in 1..SteadyLen |-> Steady] :
             mid \in [1..3 -> WindowKinds] }

InitTwice ==
    /\ pc = "first"
    /\ err = "none"
    /\ \E vs \in TwiceWindowings, sp \in SpeechProfiles :
          /\ tremor = Column(eval_tremor(MeasuredWindows(vs, 0)))
          /\ sp_tl = eval_speed_pause_timeline(tremor_hop * Len(vs),
                                               IntensityFrames(tremor_hop * Len(vs), sp))
          /\ arg = [voiced |-> [i \in 1..Len(vs) |-> vs[i] # Unvoiced],
                    tremor |-> tremor, sp_tl |-> sp_tl]
    /\ inton = [f0_range_st |-> None, ending_slope_hz_per_s |-> None, pitch_var_st |-> None]
    /\ energy = NoEnergy
    /\ rhythm = NoRhythm
    /\ tone = NoTone
    /\ grouped = NoGrouped
    /\ payload = NoPayload
    /\ res = NoCall

\* the first run of the detectors on the caller's timelines
FirstRun ==
    /\ pc = "first"
    /\ res' = [first |-> Detections(arg.voiced, tremor, sp_tl)]
    /\ tremor' = CallerTimeline(tremor)
    /\ sp_tl' = CallerTimeline(sp_tl)
    /\ pc' = "second"
    /\ UNCHANGED <<err, inton, energy, rhythm, tone, grouped, payload, arg>>

\* the second run, on what the first run left
SecondRun ==
    /\ pc = "second"
    /\ res' = [first |-> res.first, second |-> Detections(arg.voiced, tremor, sp_tl)]
    /\ tremor' = CallerTimeline(tremor)
    /\ sp_tl' = CallerTimeline(sp_tl)
    /\ pc' = "twice"
    /\ UNCHANGED <<err, inton, energy, rhythm, tone, grouped, payload, arg>>

NextTwice == FirstRun \/ SecondRun

SpecTwice == InitTwice /\ [][NextTwice]_vars

ModuleConfig ==
    [PROSODY_CFG |-> [win |-> prosody_win, hop |-> prosody_hop,
                      jitter_ref_pct |-> jitter_ref_pct, shimmer_ref_pct |-> shimmer_ref_pct,
                      hnr_good_db |-> hnr_good_db],
     Z_PARAMS |-> Z_PARAMS,
     SPEED_PARAMS |-> [fast_hi |-> fast_hi, fast_lo |-> fast_lo, slow_lo |-> slow_lo,
                       slow_hi |-> slow_hi, min_hold |-> min_hold,
                       merge_gap |-> speed_merge_gap],
     TONE_CFG |-> [weights |-> [intonation |-> tw_intonation, energy |-> tw_energy,
                                rhythm |-> tw_rhythm]],
     Config |-> [weights |-> [tremor |-> w_tremor, pause |-> w_pause, tone |-> w_tone,
                              speed |-> w_speed]]]

\* the locals of an invocation that has not taken a step
NewFrame ==
    [pc |-> "tremor", err |-> "none", tremor |-> <<>>, sp_tl |-> <<>>,
     inton |-> ISumm(None, None, None), energy |-> NoEnergy, rhythm |-> NoRhythm,
     tone |-> NoTone, grouped |-> NoGrouped, payload |-> NoPayload]

\* the frame after the next step of _analyze_voice_core on the sound snd
StepFrame(f, snd) ==
    CASE f.pc = "tremor" ->
            [f EXCEPT !.tremor = eval_tremor(snd.frames), !.pc = "speed"]
      [] f.pc = "speed" ->
            [f EXCEPT !.sp_tl = eval_speed_pause_timeline(snd.dur, snd.intensity),
                      !.pc = "inton"]
      [] f.pc = "inton" -> [f EXCEPT !.inton = snd.inton, !.pc = "energy"]
      [] f.pc = "energy" -> [f EXCEPT !.energy = snd.energy, !.pc = "rhythm"]
      [] f.pc = "rhythm" -> [f EXCEPT !.rhythm = snd.rhythm, !.pc = "tone"]
      [] f.pc = "tone" ->
            [f EXCEPT !.tone = compute_tone_fixed(f.inton, f.energy, f.rhythm),
                      !.pc = "grouped"]
      [] f.pc = "grouped" ->
            LET g == detect_grouped_with_cfg(snd.voiced, f.tremor, f.sp_tl)
            IN  IF g.raises # "none"
                THEN [f EXCEPT !.err = g.raises, !.pc = "raised"]
                ELSE [f EXCEPT !.grouped = g, !.pc = "payload"]
      [] f.pc = "payload" ->
            LET r == build_payload_from_structures(f.tremor, f.sp_tl, f.tone)
            IN  IF r.raises
                THEN [f EXCEPT !.err = "ValueError", !.pc = "raised"]
                ELSE [f EXCEPT !.payload = r, !.pc = "attach"]
      [] f.pc = "attach" ->
            [f EXCEPT !.payload = [total_score |-> f.payload.total_score,
                                   summary |-> f.payload.summary,
                                   metrics |-> f.payload.metrics,
                                   grouped |-> f.grouped],
                      !.pc = "done"]

Ended(f) == f.pc \in {"done", "raised"}

\* the invocation on snd run alone from frame f until it is at step at (or
\* has ended)
RECURSIVE RunUntil(_, _, _)
RunUntil(f, snd, at) ==
    IF f.pc = at \/ Ended(f) THEN f ELSE RunUntil(StepFrame(f, snd), snd, at)

\* a step that renormalises TONE_CFG["weights"] itself instead of a copy
ToneWeightsWritten(f, cfg) ==
    IF f.pc = "tone"
    THEN [cfg EXCEPT !.TONE_CFG.weights.intonation = 100]
    ELSE cfg

\* the module-level configuration after the next step of frame f: no step
\* assigns to it (compute_tone_fixed takes TONE_CFG["weights"].copy())
ModuleStateAfter(f, cfg) == cfg

\* lively sounds of MaxWin windows of one kind, without band energy: silent,
\* or spoken at four syllables a second
InterleaveSounds ==
    { [dur |-> tremor_hop * MaxWin,
       frames |-> MeasuredWindows([i \in 1..MaxWin |-> k], 0),
       voiced |-> [i \in 1..MaxWin |-> k # Unvoiced],
       intensity |-> IntensityFrames(tremor_hop * MaxWin, sp),
       inton |-> pr.inton, energy |-> pr.energy, rhythm |-> pr.rhythm] :
         k \in WindowKinds,
         sp \in { q \in SpeechProfiles : q.dt = 50 /\ Len(q.pat) <= 5 },
         pr \in { q \in Prosodies : q.energy # NoEnergy } }

InitInterleave ==
    /\ pc = "run"
    /\ \E a \in InterleaveSounds, b \in InterleaveSounds :
          /\ a # b
          /\ arg = [A |-> a, B |-> b]
    /\ res = [A |-> NewFrame, B |-> NewFrame, cfg |-> ModuleConfig]
    /\ NoPipeline

\* the next step of invocation k
StepOf(k) ==
    /\ pc = "run"
    /\ ~Ended(res[k])
    /\ res' = [res EXCEPT ![k] = StepFrame(res[k], arg[k]),
                          !.cfg = ModuleStateAfter(res[k], res.cfg)]
    /\ pc' = IF Ended(res'.A) /\ Ended(res'.B) THEN "returned" ELSE "run"
    /\ UNCHANGED <<pipevars, arg>>

StepA == StepOf("A")
StepB == StepOf("B")

NextInterleave == StepA \/ StepB

SpecInterleave == InitInterleave /\ [][NextInterleave]_vars

LongMinDur == tremor_win + min_consec_frames * tremor_hop + tremor_hop

SegDurArgs ==
    { [a EXCEPT !.p.min_dur = md] : a \in SegArgs, md \in { min_dur, LongMinDur } }

InitSegDur ==
    /\ pc = "seg"
    /\ arg \in SegDurArgs
    /\ res = NoCall
    /\ NoPipeline

SpecSegDur == InitSegDur /\ [][NextSeg]_vars

\* the runs the scan loop closes, whatever they last
RunsBeforeFilter ==
    tremor_z_segments(arg.rows, arg.valid, [arg.p EXCEPT !.min_dur = 0]).segs

Span(sg) == [start |-> sg.start, end |-> sg.end]
Spans(sgs) == [j \in 1..Len(sgs) |-> Span(sgs[j])]
LastsMinDur(sg) == sg.end - sg.start >= arg.p.min_dur

\* C13: the minimum-duration filter applies to events after merging: runs
\* closer than merge_gap are merged first and only then are events shorter
\* than min_dur discarded, so two adjacent runs each shorter than min_dur
\* whose merged span is at least min_dur are reported as one event.
C13_FilterAfterMerge ==
    Segmented =>
        /\ Spans(res.merged) =
              Spans(SelectSeq(MergeSegs(RunsBeforeFilter, <<>>, arg.p.merge_gap),
                              LastsMinDur))
        /\ \A j \in 1..(Len(RunsBeforeFilter) - 1) :
              LET a == RunsBeforeFilter[j]
                  b == RunsBeforeFilter[j + 1]
              IN  ( /\ ~LastsMinDur(a) /\ ~LastsMinDur(b)
                    /\ Mergeable(a, b, arg.p.merge_gap)
                    /\ b.end - a.start >= arg.p.min_dur )
                  => \E o \in 1..Len(res.merged) :
                        res.merged[o].start <= a.start /\ res.merged[o].end >= b.end

\* two mergeable runs, each shorter than min_dur, spanning min_dur together,
\* and nothing reported
ShortRunsDropped ==
    /\ Segmented
    /\ Len(RunsBeforeFilter) = 2
    /\ ~LastsMinDur(RunsBeforeFilter[1]) /\ ~LastsMinDur(RunsBeforeFilter[2])
    /\ Mergeable(RunsBeforeFilter[1], RunsBeforeFilter[2], arg.p.merge_gap)
    /\ RunsBeforeFilter[2].end - RunsBeforeFilter[1].start >= arg.p.min_dur
    /\ res.merged = <<>>

(***************************************************************************)
(* SpecSegEdge: tremor_z_segments on the timelines of SpecSeg and on       *)
(* timelines whose scores sit exactly on the thresholds: 0.55 over a       *)
(* baseline of 0.5 is z_hi, 0.3 over 0.5 is z_lo (both divisions are exact *)
(* in binary floating point).                                              *)
(***************************************************************************)
EdgeLen == 7
EdgeScores == { 300, 500, 550 }

EdgeArgs ==
    { [rows |-> ScoreTimeline(sc),
       valid |-> [i \in 1..EdgeLen |-> TRUE],
       p |-> [Z_PARAMS EXCEPT !.win_sec = ws]] :
         sc \in [1..EdgeLen -> EdgeScores], ws \in { win_sec, 2 * win_sec } }

InitSegEdge ==
    /\ pc = "seg"
    /\ arg \in SegArgs \cup EdgeArgs
    /\ res = NoCall
    /\ NoPipeline

SpecSegEdge == InitSegEdge /\ [][NextSeg]_vars

\* window i is valid: its mask frame is voiced and its z-ratio is a number
Usable(i) == arg.valid[i] /\ res.z[i] # NaN

FirstOf(sg) == sg.rows[1]
LastOf(sg) == sg.rows[Len(sg.rows)]

\* the run sg begins with min_consec_frames valid windows that pass the
\* entry test, holds no window below z_lo, and ends just before the first
\* window below z_lo or invalid, or at the end of the timeline
RunShape(sg, Entry(_)) ==
    /\ Len(sg.rows) >= arg.p.min_consec_frames
    /\ \A n \in 1..Len(sg.rows) : sg.rows[n] = FirstOf(sg) + n - 1
    /\ \A i \in FirstOf(sg)..(FirstOf(sg) + arg.p.min_consec_frames - 1) :
          Usable(i) /\ Entry(res.z[i])
    /\ \A i \in FirstOf(sg)..LastOf(sg) : Usable(i) /\ ~(res.z[i] < arg.p.z_lo)
    /\ \/ LastOf(sg) = Len(arg.rows)
       \/ ~Usable(LastOf(sg) + 1)
       \/ res.z[LastOf(sg) + 1] < arg.p.z_lo
    /\ sg.start = arg.rows[FirstOf(sg)].start
    /\ sg.end = arg.rows[LastOf(sg)].end

AtOrAboveHi(zi) == zi >= arg.p.z_hi
AboveHi(zi) == zi > arg.p.z_hi

\* C14 (as amended): every run accepted by tremor_z_segments (before merging)
\* begins with at least min_consec_frames consecutive valid windows whose
\* z-ratio is each at or above z_hi, contains no window whose z-ratio is
\* below z_lo, and ends at the window immediately before the first later
\* window whose z-ratio is below z_lo (or that is invalid, or at the end of
\* the timeline); windows between z_lo and z_hi inside an open run do not
\* close it.
C14_RunShape ==
    Segmented => \A j \in 1..Len(res.segs) : RunShape(res.segs[j], AtOrAboveHi)

\* C14 as stated: the same, the first min_consec_frames windows each
\* exceeding z_hi
C14_RunShapeExceeds ==
    Segmented => \A j \in 1..Len(res.segs) : RunShape(res.segs[j], AboveHi)

\* C14 witness: an accepted run that holds a window between z_lo and z_hi
\* and is closed by a window below z_lo
C14_Witness ==
    /\ Segmented
    /\ \E j \in 1..Len(res.segs) :
          LET sg == res.segs[j]
          IN  /\ RunShape(sg, AtOrAboveHi)
              /\ \E i \in FirstOf(sg)..LastOf(sg) :
                    res.z[i] >= arg.p.z_lo /\ res.z[i] < arg.p.z_hi
              /\ LastOf(sg) < Len(arg.rows)
              /\ Usable(LastOf(sg) + 1)
              /\ res.z[LastOf(sg) + 1] < arg.p.z_lo

\* an accepted run opened by windows whose z-ratio equals z_hi
RunOpenedAtHi ==
    /\ Segmented
    /\ \E j \in 1..Len(res.segs) :
          \A i \in FirstOf(res.segs[j])..(FirstOf(res.segs[j]) + arg.p.min_consec_frames - 1) :
              res.z[i] = arg.p.z_hi

\* the center of window i lies inside the event sg (ends included)
CenterInside(i, sg) ==
    2 * sg.start <= Center2(arg.rows[i]) /\ Center2(arg.rows[i]) <= 2 * sg.end

\* C15: with a voiced mask, for every reported (merged) event [start, end]
\* and every window whose center maps to an unvoiced mask frame, that
\* window's center does not lie inside [start, end].
C15_NoUnvoicedCenterInEvent ==
    Segmented =>
        \A o \in 1..Len(res.merged) :
            \A i \in 1..Len(arg.rows) : ~arg.valid[i] => ~CenterInside(i, res.merged[o])

\* an event merged from two runs across the unvoiced window that split them,
\* whose center lies strictly between the event's start and end
UnvoicedCenterWithinEvent ==
    /\ Segmented
    /\ Len(res.segs) = 2 /\ Len(res.merged) = 1
    /\ \E i \in 1..Len(arg.rows) :
          /\ ~arg.valid[i]
          /\ 2 * res.merged[1].start < Center2(arg.rows[i])
          /\ Center2(arg.rows[i]) < 2 * res.merged[1].end

(***************************************************************************)
(* SpecSpeed: detect_speed_spans and spans("flag_pause_high") on merged    *)
(* rows laid out as tremor windows or as speed windows: up to three        *)
(* stretches of windows of one kind each, the kinds sitting above, on,     *)
(* between and below the rate, pause and voiced thresholds.                *)
(***************************************************************************)
MaxStretch == 3

\* articulation rate (a), pause ratio (p) and voiced ratio (v) of a window
SpeedKinds ==
    { [a |-> fast_hi + 10, p |-> FAST_MAX_PAUSE - 6, v |-> VOICED_THR + 5],
      [a |-> fast_hi, p |-> FAST_MAX_PAUSE, v |-> VOICED_THR],
      [a |-> fast_lo, p |-> SLOW_MIN_PAUSE, v |-> VOICED_THR - 5],
      [a |-> fast_lo - 10, p |-> pause_band_hi + 5, v |-> VOICED_THR + 5],
      [a |-> slow_lo - 10, p |-> pause_band_hi + 5, v |-> VOICED_THR + 5],
      [a |-> slow_lo, p |-> SLOW_MIN_PAUSE + 5, v |-> VOICED_THR],
      [a |-> slow_hi, p |-> SLOW_MIN_PAUSE + 5, v |-> VOICED_THR + 5],
      [a |-> slow_hi + 10, p |-> FAST_MAX_PAUSE - 6, v |-> VOICED_THR + 5],
      [a |-> NaN, p |-> NaN, v |-> NaN] }

Layouts ==
    { [win |-> tremor_win, hop |-> tremor_hop], [win |-> prosody_win, hop |-> prosody_hop] }

Stretch(k, n) == [j \in 1..n |-> k]

\* the merged rows of the windows ks in the layout lay
MergedRows(ks, lay) ==
    LET w == sliding_windows(lay.hop * Len(ks), lay.win, lay.hop)
    IN  Column([i \in 1..Len(ks) |->
            [start |-> w[i].start, end |-> w[i].end,
             speaking_rate_sps |->
                 IF ks[i].a = NaN THEN NaN ELSE (ks[i].a * (100 - ks[i].p)) \div 100,
             articulation_rate_sps |-> ks[i].a,
             pause_ratio |-> ks[i].p,
             voiced_ratio |-> ks[i].v]])

SpeedArgs ==
    { [rows |-> MergedRows(ks, lay)] :
        ks \in { Stretch(k1, n1) \o Stretch(k2, n2) \o Stretch(k3, n3) :
                   k1 \in SpeedKinds, k2 \in SpeedKinds, k3 \in SpeedKinds,
                   n1 \in { 0, MaxStretch }, n2 \in 1..MaxStretch,
                   n3 \in { 0, MaxStretch - 1 } },
        lay \in Layouts }

InitSpeed ==
    /\ pc = "merged"
    /\ arg \in SpeedArgs
    /\ res = NoCall
    /\ NoPipeline

\* detect_grouped_with_cfg from the merged rows on: detect_speed_spans (with
\* the smoothed rows and the runs of _collect before and after its merge
\* loop) and spans("flag_pause_high")
CallDetectSpans ==
    /\ pc = "merged"
    /\ LET sm == add_speed_smoothing(arg.rows)
           out == detect_speed_spans(arg.rows)
       IN  res' = [sm |-> sm,
                   runs |-> [fast |-> CollectFrom(1, sm, "fast", NoSpan, <<>>),
                             slow |-> CollectFrom(1, sm, "slow", NoSpan, <<>>)],
                   merged |-> [fast |-> _collect(sm, "fast"), slow |-> _collect(sm, "slow")],
                   speed_fast |-> out.fast,
                   speed_slow |-> out.slow,
                   pause_high |-> pause_high_spans(arg.rows)]
    /\ pc' = "spans"
    /\ UNCHANGED <<pipevars, arg>>

NextSpeed == CallDetectSpans

SpecSpeed == InitSpeed /\ [][NextSpeed]_vars

Modes == { "fast", "slow" }
Rate2(i) == res.sm[i].articulation_rate_sps_sm
Pause2(i) == res.sm[i].pause_ratio_sm

\* the entry conditions of the claim on window i (smoothed values are
\* doubled medians)
OpensAt(mode, i) ==
    /\ Rate2(i) # NaN /\ Pause2(i) # NaN /\ res.sm[i].voiced_ratio # NaN
    /\ res.sm[i].voiced_ratio >= VOICED_THR
    /\ IF mode = "fast"
       THEN Rate2(i) > 2 * fast_hi /\ Pause2(i) < 2 * FAST_MAX_PAUSE
       ELSE Rate2(i) < 2 * slow_lo /\ Pause2(i) > 2 * SLOW_MIN_PAUSE

\* the closing condition of the claim on window i
ClosesAt(mode, i) ==
    \/ Rate2(i) = NaN
    \/ IF mode = "fast" THEN Rate2(i) < 2 * fast_lo ELSE Rate2(i) > 2 * slow_hi

\* C16: a fast run is opened only at a window whose smoothed rate is above
\* fast_hi with smoothed pause ratio below FAST_MAX_PAUSE and voiced ratio
\* at least VOICED_THR; it is extended by every following window until the
\* first window whose rate is below fast_lo or non-finite, which is
\* excluded, so windows between fast_lo and fast_hi never close it. Slow
\* runs are symmetric: opened below slow_lo with pause ratio above
\* SLOW_MIN_PAUSE, closed above slow_hi.
C16_SpeedRunShape ==
    pc = "spans" =>
        \A mode \in Modes :
            \A j \in 1..Len(res.runs[mode]) :
                LET run == res.runs[mode][j]
                    first == run.rows[1]
                    last == run.rows[Len(run.rows)]
                IN  /\ OpensAt(mode, first)
                    /\ \A n \in 1..Len(run.rows) : run.rows[n] = first + n - 1
                    /\ \A i \in (first + 1)..last : ~ClosesAt(mode, i)
                    /\ last = Len(arg.rows) \/ ClosesAt(mode, last + 1)
                    /\ run.start = arg.rows[first].start
                    /\ run.end = arg.rows[last].end

\* C16 witness: a fast run holding a window with rate between fast_lo and
\* fast_hi and closed by a window below fast_lo, and likewise a slow run
C16_Witness ==
    /\ pc = "spans"
    /\ \E j \in 1..Len(res.runs.fast) :
          LET rw == res.runs.fast[j].rows
              last == rw[Len(rw)]
          IN  /\ \E n \in 2..Len(rw) : Rate2(rw[n]) <= 2 * fast_hi
              /\ last < Len(arg.rows)
              /\ Rate2(last + 1) # NaN /\ Rate2(last + 1) < 2 * fast_lo

\* a slow run holding a window between slow_lo and slow_hi, closed by a
\* window above slow_hi
SlowRunClosed ==
    /\ pc = "spans"
    /\ \E j \in 1..Len(res.runs.slow) :
          LET rw == res.runs.slow[j].rows
              last == rw[Len(rw)]
          IN  /\ \E n \in 2..Len(rw) : Rate2(rw[n]) >= 2 * slow_lo
              /\ last < Len(arg.rows)
              /\ Rate2(last + 1) # NaN /\ Rate2(last + 1) > 2 * slow_hi

\* the rows of a merged span as a set, and the first rows of its stretches
\* of consecutive rows (the runs it was merged from)
RowSet(sp) == { sp.rows[n] : n \in 1..Len(sp.rows) }
StretchStarts(sp) == { a \in RowSet(sp) : a - 1 \notin RowSet(sp) }
StretchEnd(sp, a) ==
    CHOOSE b \in RowSet(sp) :
        /\ b >= a
        /\ \A i \in a..b : i \in RowSet(sp)
        /\ b + 1 \notin RowSet(sp)

Reported(mode) == IF mode = "fast" THEN res.speed_fast ELSE res.speed_slow

\* a run opens at window i: no run is open when the loop reaches it (it is
\* the first window or the one before it closes a run) and it passes the
\* entry test
RunOpensAt(mode, i) ==
    /\ OpensAt(mode, i)
    /\ i = 1 \/ ClosesAt(mode, i - 1)

\* C17: every span reported in speed_fast and speed_slow has held for the
\* minimum hold: its duration is at least min_hold, and runs shorter than
\* min_hold are never reported on their own nor merged into a reported span
\* (every run a reported span is made of lasts min_hold or more).
C17_SpansHeld ==
    pc = "spans" =>
        \A mode \in Modes :
            /\ Len(Reported(mode)) = Len(res.merged[mode])
            /\ \A n \in 1..Len(Reported(mode)) :
                  /\ Reported(mode)[n].end - Reported(mode)[n].start >= min_hold
                  /\ Reported(mode)[n].start = Round2(res.merged[mode][n].start)
                  /\ Reported(mode)[n].end = Round2(res.merged[mode][n].end)
                  /\ \A a \in StretchStarts(res.merged[mode][n]) :
                        arg.rows[StretchEnd(res.merged[mode][n], a)].end
                            - arg.rows[a].start >= min_hold

\* C17 witness: a reported span, and after it, within the merge gap, a run
\* shorter than min_hold that is left out of every reported span
C17_Witness ==
    /\ pc = "spans"
    /\ \E mode \in Modes :
          /\ Len(res.merged[mode]) = 1
          /\ \E i \in 1..Len(arg.rows) :
                /\ RunOpensAt(mode, i)
                /\ i \notin RowSet(res.merged[mode][1])
                /\ \A r \in RowSet(res.merged[mode][1]) : r < i
                /\ arg.rows[i].start - res.merged[mode][1].end <= speed_merge_gap

\* C18: pause_high spans get the run-length and merge treatment of the speed
\* spans: every pause_high span lasts at least the minimum hold, and two
\* runs separated by a gap within the merge tolerance are reported as one
\* span (so consecutive reported spans are farther apart than the tolerance).
C18_PauseHighHeldAndMerged ==
    pc = "spans" =>
        /\ \A n \in 1..Len(res.pause_high) :
              res.pause_high[n].end - res.pause_high[n].start >= min_hold
        /\ \A n \in 1..(Len(res.pause_high) - 1) :
              res.pause_high[n + 1].start - res.pause_high[n].end > speed_merge_gap

\* a pause_high span shorter than min_hold is reported
ShortPauseSpan ==
    /\ pc = "spans"
    /\ \E n \in 1..Len(res.pause_high) :
          res.pause_high[n].end - res.pause_high[n].start < min_hold

\* two pause_high spans within the merge tolerance are reported apart
PauseSpansApart ==
    /\ pc = "spans"
    /\ \E n \in 1..(Len(res.pause_high) - 1) :
          res.pause_high[n + 1].start - res.pause_high[n].end <= speed_merge_gap

(***************************************************************************)
(* SpecWin: sliding_windows on durations, window lengths and hops in       *)
(* tenths of a second.                                                     *)
(***************************************************************************)
MaxWinDur == 12
MaxWinLen == 5

InitWin ==
    /\ pc = "win"
    /\ arg \in [dur : 1..MaxWinDur, win : 1..MaxWinLen, hop : 1..MaxWinLen]
    /\ res = NoCall
    /\ NoPipeline

CallSlidingWindows ==
    /\ pc = "win"
    /\ res' = sliding_windows(arg.dur, arg.win, arg.hop)
    /\ pc' = "windows"
    /\ UNCHANGED <<pipevars, arg>>

NextWin == CallSlidingWindows

SpecWin == InitWin /\ [][NextWin]_vars

WinLength(i) == res[i].end - res[i].start

\* there is a window, each one ends after it starts, and consecutive starts
\* differ by exactly hop from 0 on
WindowsAdvance ==
    /\ Len(res) >= 1
    /\ res[1].start = 0
    /\ \A i \in 1..Len(res) : res[i].end > res[i].start
    /\ \A i \in 1..(Len(res) - 1) : res[i + 1].start - res[i].start = arg.hop

\* C19 as stated: all windows satisfy end > start, consecutive starts differ
\* by exactly hop, and every window except the last has length exactly win:
\* only the terminal window may be shorter than win.
C19_OnlyLastShorter ==
    pc = "windows" =>
        /\ WindowsAdvance
        /\ \A i \in 1..(Len(res) - 1) : WinLength(i) = arg.win
        /\ WinLength(Len(res)) <= arg.win

\* C19 (as amended): all windows satisfy end > start, consecutive starts
\* differ by exactly hop, the windows cover [0, dur), and every window that
\* starts at or before dur - win has length exactly win; each window that
\* starts later is cut at dur and is shorter than win (with hop < win there
\* can be several of them).
C19_WindowsCutAtDur ==
    pc = "windows" =>
        /\ WindowsAdvance
        /\ res[Len(res)].start < arg.dur
        /\ res[Len(res)].start + arg.hop >= arg.dur
        /\ \A i \in 1..Len(res) :
              /\ res[i].start + arg.win <= arg.dur => WinLength(i) = arg.win
              /\ res[i].start + arg.win > arg.dur =>
                    res[i].end = arg.dur /\ WinLength(i) < arg.win

\* C19 witness: overlapping windows of which one is whole and the last two
\* are cut at dur
C19_Witness ==
    /\ pc = "windows"
    /\ arg.hop < arg.win
    /\ Len(res) >= 3
    /\ WinLength(1) = arg.win
    /\ WinLength(Len(res) - 1) < arg.win
    /\ WinLength(Len(res)) < WinLength(Len(res) - 1)

(***************************************************************************)
(* Claims about eval_tremor's timeline, checked under Spec                 *)
(***************************************************************************)
\* a score in thousandths lies in [0, 1]
InUnit(x) == x # NaN /\ x # None /\ 0 <= x /\ x <= 1000

\* C20: every per-window tremor_score produced by eval_tremor lies in
\* [0, 1], for every window, including a window with no periodic voiced
\* signal, whose jitter, shimmer and HNR default to the reference
\* thresholds instead of staying undefined.
C20_TremorScoreInUnit ==
    \A i \in 1..Len(tremor) :
        /\ InUnit(tremor[i].tremor_score)
        /\ tremor[i].jitter_pct # NaN /\ tremor[i].shimmer_pct # NaN
        /\ tremor[i].hnr_db # NaN

\* the score of every window with a periodic voiced signal lies in [0, 1]
VoicedScoresInUnit ==
    \A i \in 1..Len(tremor) :
        tremor[i].jitter_pct # NaN => InUnit(tremor[i].tremor_score)

\* a timeline holding a voiced window with a score and an unvoiced window
\* whose measures and score are NaN
UnvoicedScoreNaN ==
    /\ \E i \in 1..Len(tremor) : tremor[i].jitter_pct # NaN /\ tremor[i].tremor_score > 0
    /\ \E i \in 1..Len(tremor) :
          tremor[i].jitter_pct = NaN /\ tremor[i].tremor_score = NaN

(***************************************************************************)
(* SpecLocal: eval_speed_pause_timeline on two recordings A and B of the   *)
(* same duration whose intensity series differ in one frame only.          *)
(***************************************************************************)
\* the recordings last four speed hops
LocalDur == 4 * prosody_hop

\* the dB values a frame of B may take instead of A's
ChangedLevels == { 40, 60, 70 }

LocalArgs(sp) ==
    LET fr == IntensityFrames(LocalDur, sp)
    IN  { [A |-> fr, B |-> [fr EXCEPT ![k].v = v]] :
            k \in 1..Len(fr), v \in ChangedLevels }

InitLocal ==
    /\ pc = "local"
    /\ arg \in UNION { LocalArgs(sp) : sp \in SpeechProfiles }
    /\ res = NoCall
    /\ NoPipeline

\* eval_speed_pause_timeline on A and on B
EvalBothTimelines ==
    /\ pc = "local"
    /\ res' = [A |-> eval_speed_pause_timeline(LocalDur, arg.A),
               B |-> eval_speed_pause_timeline(LocalDur, arg.B)]
    /\ pc' = "timelines"
    /\ UNCHANGED <<pipevars, arg>>

NextLocal == EvalBothTimelines

SpecLocal == InitLocal /\ [][NextLocal]_vars

\* A and B hold the same intensity samples inside window i
AgreeInside(i) ==
    \A k \in 1..Len(arg.A) :
        (arg.A[k].t >= res.A[i].start /\ arg.A[k].t <= res.A[i].end)
            => arg.A[k] = arg.B[k]

\* C21: the speed/pause extractor is purely local: for two recordings whose
\* intensity samples agree inside a window, eval_speed_pause_timeline gives
\* that window the same speaking_rate_sps and the same pause_ratio,
\* whatever the intensity samples outside the window are.
C21_WindowLocal ==
    pc = "timelines" =>
        \A i \in 1..Len(res.A) :
            AgreeInside(i) =>
                /\ res.A[i].speaking_rate_sps = res.B[i].speaking_rate_sps
                /\ res.A[i].pause_ratio = res.B[i].pause_ratio

\* a window where A and B agree inside and get different pause ratios
PauseDependsOutside ==
    /\ pc = "timelines"
    /\ \E i \in 1..Len(res.A) :
          AgreeInside(i) /\ res.A[i].pause_ratio # res.B[i].pause_ratio

\* a window where A and B agree inside and get different speaking rates
RateDependsOutside ==
    /\ pc = "timelines"
    /\ \E i \in 1..Len(res.A) :
          AgreeInside(i) /\ res.A[i].speaking_rate_sps # res.B[i].speaking_rate_sps

(***************************************************************************)
(* SpecPeaks: _syllable_peaks on a short intensity series.                 *)
(***************************************************************************)
MaxPeakFrames == 7

\* the time step of the intensity frames, ms
PeakStep == 50

PeakLevels == { 50, 60, 70 }

InitPeaks ==
    /\ pc = "series"
    /\ \E n \in 2..MaxPeakFrames :
          arg \in [tI : { Column([k \in 1..n |-> PeakStep * k]) },
                   vI : [1..n -> PeakLevels]]
    /\ res = NoCall
    /\ NoPipeline

CallSyllablePeaks ==
    /\ pc = "series"
    /\ res' = [cand |-> IF Len(arg.tI) < 3 THEN {}
                        ELSE PeakCandidates(arg.tI, arg.vI),
               peaks |-> _syllable_peaks(arg.tI, arg.vI)]
    /\ pc' = "peaks"
    /\ UNCHANGED <<pipevars, arg>>

NextPeaks == CallSyllablePeaks

SpecPeaks == InitPeaks /\ [][NextPeaks]_vars

\* the local maximum at frame c was accepted as a pulse
Accepted(c) == \E k \in 1..Len(res.peaks) : res.peaks[k] = arg.tI[c]

\* the pulses accepted before frame c
PulsesBefore(c) == { k \in 1..Len(res.peaks) : res.peaks[k] < arg.tI[c] }

\* frame c lies less than min_sep after the last pulse accepted before it
TooSoonAfterPulse(c) ==
    /\ PulsesBefore(c) # {}
    /\ LET last == CHOOSE k \in PulsesBefore(c) : \A o \in PulsesBefore(c) : o <= k
       IN  arg.tI[c] - res.peaks[last] < syllable_min_sep

\* C22: any two consecutive pulses accepted by _syllable_peaks are at least
\* min_sep apart, and a local maximum of the derivative is rejected only
\* when it lies less than min_sep after the last accepted pulse (not after
\* a rejected one).
C22_PulsesApart ==
    pc = "peaks" =>
        /\ \A k \in 1..(Len(res.peaks) - 1) :
              res.peaks[k + 1] - res.peaks[k] >= syllable_min_sep
        /\ \A c \in res.cand : ~Accepted(c) <=> TooSoonAfterPulse(c)

\* a local maximum accepted although it lies less than min_sep after a
\* rejected one
C22_Witness ==
    /\ pc = "peaks"
    /\ \E c, r \in res.cand :
          /\ ~Accepted(r) /\ Accepted(c)
          /\ arg.tI[r] < arg.tI[c]
          /\ arg.tI[c] - arg.tI[r] < syllable_min_sep

(***************************************************************************)
(* SpecTremorScore: _score_tremor_struct on tremor timelines whose rows    *)
(* carry the four fields eval_tremor writes.                               *)
(***************************************************************************)
MaxMoreRows == 1

\* tremor_score values on both sides of the three z thresholds
ZGrid == { 0, 500, 799, 800, 1000, 1199, 1200, 1599, 1600, 2000 }

\* voiced rows with each measurement at and past its penalty threshold, and
\* the row of an unvoiced window
ScoredRows ==
    { Row(z, j, s, h) : z \in ZGrid, j \in { 2500, 2502 }, s \in { 9000, 9002 },
                        h \in { 11998, 12000 } }
      \cup { Row(NaN, NaN, NaN, NaN) }

\* the rows that follow the first
MoreRows ==
    { Row(NaN, NaN, NaN, NaN), Row(300, 1000, 5000, 20000),
      Row(1000, 3000, 10000, 10000), Row(1700, 3000, 10000, 20000) }

InitTremorScore ==
    /\ pc = "timeline"
    /\ \E r \in ScoredRows, more \in SeqsUpTo(MoreRows, MaxMoreRows) :
          arg = <<r>> \o more
    /\ res = NoCall
    /\ NoPipeline

ScoreTremor ==
    /\ pc = "timeline"
    /\ res' = _score_tremor_struct(arg)
    /\ pc' = "scored"
    /\ UNCHANGED <<pipevars, arg>>

NextTremorScore == ScoreTremor

SpecTremorScore == InitTremorScore /\ [][NextTremorScore]_vars

\* x < thr as Python compares: false for a NaN
Below(x, thr) == x # NaN /\ x < thr

\* the number of flat-penalty conditions the medians of rows meet
PenaltyCount(rows) ==
    LET j == _median(Field(rows, "jitter_pct"))
        s == _median(Field(rows, "shimmer_pct"))
        h == _median(Field(rows, "hnr_db"))
    IN  (IF IsNum(j) /\ j > 2 * jitter_penalty_thr THEN 1 ELSE 0)
        + (IF IsNum(s) /\ s > 2 * shimmer_penalty_thr THEN 1 ELSE 0)
        + (IF IsNum(h) /\ h < 2 * hnr_penalty_thr THEN 1 ELSE 0)

\* C23: for a non-empty tremor timeline, _score_tremor_struct returns
\* score = clamp(base - penalty_step * n, floor, 100), where base is 90, 82,
\* 70 or 55 according to whether the maximum tremor_score is below 0.8,
\* below 1.2, below 1.6 or not, and n counts the flat-penalty conditions
\* that hold (median jitter > 2.5 %, median shimmer > 9.0 %, median HNR <
\* 12.0 dB); the level depends on the maximum tremor_score only and is not
\* changed by the penalties.
C23_TremorScoreFormula ==
    pc = "scored" =>
        LET zmax == res.stats.z_max
            base == IF Below(zmax, 800) THEN 90
                    ELSE IF Below(zmax, 1200) THEN 82
                    ELSE IF Below(zmax, 1600) THEN 70 ELSE 55
        IN  /\ zmax = PyMax(Field(arg, "tremor_score"))
            /\ res.score = Max(40, Min(100, base - 3 * PenaltyCount(arg)))
            /\ res.level = IF Below(zmax, 1200) THEN "good"
                           ELSE IF Below(zmax, 1600) THEN "slight" ELSE "caution"

\* a timeline in the 'slight' band that meets two penalty conditions
C23_Witness ==
    /\ pc = "scored"
    /\ res.level = "slight"
    /\ PenaltyCount(arg) = 2
    /\ res.score = 64

\* every tremor_score of the timeline lies in [0, 1]
ScoresInUnit == \A i \in 1..Len(arg) : InUnit(arg[i].tremor_score)

\* C24: for any tremor timeline whose tremor_score values all lie in [0,1],
\* _score_tremor_struct with the default thresholds returns level 'good' and
\* a score in [73,90]; the levels 'slight' and 'caution' and the floor of 40
\* are never reached.
C24_UnitScoresStayGood ==
    (pc = "scored" /\ ScoresInUnit) =>
        /\ res.level = "good"
        /\ res.score \in 73..90

\* a timeline with scores in [0, 1] that meets all three penalty conditions
C24_Witness ==
    /\ pc = "scored"
    /\ ScoresInUnit
    /\ \E i \in 1..Len(arg) : arg[i].tremor_score >= z_max_good
    /\ res.score = 73

(***************************************************************************)
(* SpecOrdered: the segment lists of tremor_z_segments (on the timelines   *)
(* of SpecSeg) and of detect_speed_spans (on the rows of SpecSpeed).       *)
(***************************************************************************)
InitOrdered == InitSeg \/ InitSpeed

NextOrdered == CallTremorZSegments \/ CallDetectSpans

SpecOrdered == InitOrdered /\ [][NextOrdered]_vars

\* the segments of list are in strictly increasing time order, do not
\* overlap, and each starts more than gap after the one before it ends
Ordered(list, gap) ==
    \A k \in 1..(Len(list) - 1) :
        /\ list[k].start < list[k + 1].start
        /\ list[k].end < list[k + 1].end
        /\ list[k].end <= list[k + 1].start
        /\ list[k + 1].start - list[k].end > gap

\* C25: the segments returned by tremor_z_segments, and each of the fast and
\* slow lists returned by detect_speed_spans, are in strictly increasing
\* time order, any two consecutive segments of one list are separated by a
\* gap (next start minus previous end) strictly greater than merge_gap, and
\* the segments of one list never overlap.
C25_SegmentsOrderedApart ==
    /\ (pc = "segmented" /\ res.raises = "none") => Ordered(res.merged, arg.p.merge_gap)
    /\ pc = "spans" =>
          /\ Ordered(res.speed_fast, speed_merge_gap)
          /\ Ordered(res.speed_slow, speed_merge_gap)

\* a speed list of two spans, from held runs that the merge loop kept apart
C25_Witness ==
    /\ pc = "spans"
    /\ \E mode \in Modes :
          /\ Len(res.runs[mode]) >= 2
          /\ Len(res.merged[mode]) >= 2

\* two held speed runs at most merge_gap apart, reported as one span
SpeedRunsMerged ==
    /\ pc = "spans"
    /\ \E mode \in Modes : Len(res.runs[mode]) = 2 /\ Len(res.merged[mode]) = 1

\* C26: in detect_speed_spans with the default thresholds (slow_lo < slow_hi
\* < fast_lo < fast_hi) no window is in both a fast run and a slow run: the
\* rows of the speed_fast spans and the rows of the speed_slow spans are
\* disjoint.
C26_FastSlowDisjoint ==
    pc = "spans" =>
        \A f \in 1..Len(res.merged.fast), sl \in 1..Len(res.merged.slow) :
            RowSet(res.merged.fast[f]) \cap RowSet(res.merged.slow[sl]) = {}

\* a recording with a fast span and a slow span, both reported
C26_Witness ==
    /\ pc = "spans"
    /\ slow_lo < slow_hi /\ slow_hi < fast_lo /\ fast_lo < fast_hi
    /\ Len(res.speed_fast) >= 1
    /\ Len(res.speed_slow) >= 1

\* a component is available when its summary holds a finite value
Available(summ) == \E f \in DOMAIN summ : IsNum(summ[f])

\* the sum of the weights of the components whose score is not None, in
\* 1/100; the intonation score is never None
Coverage ==
    tw_intonation + (IF Available(energy) THEN tw_energy ELSE 0)
                  + (IF Available(rhythm) THEN tw_rhythm ELSE 0)

LabelRank ==
    CASE tone.label = "confident and stable" -> 3
      [] tone.label = "mostly natural" -> 2
      [] tone.label = "somewhat monotone/unbalanced" -> 1
      [] OTHER -> 0

\* the label sits at rank r or above when tone_score / coverage is at pct or
\* above, and under r when it is under pct, tone_score being 100 * tone_0_1
\* to within 0.5
LabelFollowsNormalised(pct, r) ==
    /\ 100 * tone.tone_score >= pct * Coverage + 50 => LabelRank >= r
    /\ 100 * tone.tone_score <= pct * Coverage - 50 => LabelRank < r

\* C27: compute_tone_fixed does not renormalise over the available
\* components: tone_score <= round(100 * coverage), coverage being the sum
\* of the weights (0.40, 0.30, 0.30) of the components whose score is not
\* None; when energy and rhythm are unavailable tone_score <= 40 for every
\* intonation summary, while the label is derived from the
\* coverage-normalised value.
C27_ScoreBoundedByCoverage ==
    pc = "toned" =>
        /\ tone.coverage = Coverage
        /\ tone.tone_score <= Coverage
        /\ (~Available(energy) /\ ~Available(rhythm)) => tone.tone_score <= 40
        /\ LabelFollowsNormalised(80, 3)
        /\ LabelFollowsNormalised(65, 2)
        /\ LabelFollowsNormalised(50, 1)

\* intonation alone, in all three bands: the score is 40 and the label the
\* best one
C27_Witness ==
    /\ pc = "toned"
    /\ ~Available(energy) /\ ~Available(rhythm)
    /\ tone.tone_score = 40
    /\ tone.label = "confident and stable"

(***************************************************************************)
(* SpecSummary: build_payload_from_structures on speed timelines of one    *)
(* row whose speaking rate runs over every rate up to MaxSps, in 1/100     *)
(* syllables per second (0 to 213 words per minute), and on timelines      *)
(* without speed data.                                                     *)
(***************************************************************************)
MaxSps == 800

InitSummary ==
    /\ pc = "payload"
    /\ err = "none"
    /\ tremor = <<>>
    /\ sp_tl \in { <<>>, <<SpRow(None, None)>> } \cup { <<SpRow(s, 20)>> : s \in 0..MaxSps }
    /\ inton = ISumm(None, None, None)
    /\ energy = NoEnergy
    /\ rhythm = NoRhythm
    /\ tone = NoTone
    /\ grouped = NoGrouped
    /\ payload = NoPayload
    /\ arg = NoCall
    /\ res = NoCall

NextSummary == BuildPayload("done")

SpecSummary == InitSummary /\ [][NextSummary]_vars

\* the words per minute the payload reports, None without speed data
Wpm == payload.metrics[4].value

Says(phrase) == \E k \in 1..Len(payload.summary) : payload.summary[k] = phrase

\* C28: the speed phrase of _build_summary is a function of the speed level
\* alone: 'pace adequate' exactly when wpm is in [120,185], 'pace somewhat
\* fast' exactly when wpm is in [100,119] or [186,200], and no speed phrase
\* when wpm < 100, wpm > 200, or the speed data is insufficient.
C28_SpeedPhraseByWpm ==
    Returned =>
        /\ Says("pace adequate") <=> (Wpm # None /\ Wpm \in 120..185)
        /\ Says("pace somewhat fast") <=> (Wpm # None /\ Wpm \in (100..119) \cup (186..200))
        /\ payload.summary = SpeedPhrase(payload.metrics[4].level)

\* the level 'adequate~slightly fast', whose text holds both tested words,
\* reported as 'pace adequate'
C28_Witness ==
    /\ Returned
    /\ Wpm = 185
    /\ payload.metrics[4].level = "adequate~slightly fast"
    /\ Says("pace adequate")
    /\ ~Says("pace somewhat fast")

(***************************************************************************)
(* feedback_service.py and models/feedback_summary.py: the FeedbackSummary *)
(* table and its three writers. The table is the set of committed rows;    *)
(* the face columns, speech, overall and created_at, which no writer       *)
(* modelled here touches, are left out of the rows.                        *)
(***************************************************************************)
\* the attributes the mapped class FeedbackSummary defines
FeedbackColumns ==
    { "session_id", "overall", "overall_face", "overall_voice", "overall_pose",
      "gaze", "eye_blink", "mouth", "tremor", "blank", "tone", "speed",
      "shoulder", "head", "hand", "speech", "comment", "problem_sections",
      "created_at" }

VoiceFields == { "overall_voice", "tremor", "blank", "tone", "speed" }
PoseFields == { "overall_pose", "shoulder", "head", "hand", "problem_sections" }
CommentFields == { "comment" }

\* FeedbackSummary(session_id=..., attempt_id=...)
NewSummary(sid, aid) ==
    [f \in VoiceFields \cup PoseFields \cup CommentFields |-> None]
        @@ [session_id |-> sid, attempt_id |-> aid]

\* the query on (session_id, attempt_id) and the row it yields, a new one
\* when there is none. FeedbackSummary.attempt_id is evaluated to build the
\* filter: the access raises when the class has no such attribute.
get_or_create_feedback_summary(table, sid, aid) ==
    IF "attempt_id" \notin FeedbackColumns
    THEN [raises |-> "AttributeError", old |-> {}, fs |-> NewSummary(sid, aid)]
    ELSE LET found == { r \in table : r.session_id = sid /\ r.attempt_id = aid }
         IN  IF found # {}
             THEN [raises |-> "none", old |-> found, fs |-> CHOOSE r \in found : TRUE]
             ELSE [raises |-> "none", old |-> {}, fs |-> NewSummary(sid, aid)]

\* db.commit() of the row got.fs changed into fs
Committed(table, got, fs) ==
    IF got.old = {} THEN table \cup {fs} ELSE (table \ {got.fs}) \cup {fs}

\* voice_json holds total_score and, per metric id it lists, a score
create_or_update_voice_feedback(table, sid, aid, voice_json) ==
    LET got == get_or_create_feedback_summary(table, sid, aid)
        m == voice_json.metrics
        put(fs, id, col) == IF id \in DOMAIN m THEN [fs EXCEPT ![col] = m[id]] ELSE fs
        fs == put(put(put(put([got.fs EXCEPT !.overall_voice = voice_json.total_score],
                               "tremor", "tremor"), "pause", "blank"), "tone", "tone"),
                  "speed", "speed")
    IN  IF got.raises # "none" THEN [raises |-> got.raises, table |-> table]
        ELSE [raises |-> "none", table |-> Committed(table, got, fs)]

create_or_update_pose_feedback(table, sid, aid, pose_json) ==
    LET got == get_or_create_feedback_summary(table, sid, aid)
        fs == [got.fs EXCEPT !.overall_pose = pose_json.overall_score,
                             !.shoulder = pose_json.category_scores.shoulder,
                             !.head = pose_json.category_scores.head_tilt,
                             !.hand = pose_json.category_scores.hand,
                             !.problem_sections = pose_json.problem_sections]
    IN  IF got.raises # "none" THEN [raises |-> got.raises, table |-> table]
        ELSE [raises |-> "none", table |-> Committed(table, got, fs)]

\* the same query and constructor, written out in the function
create_or_update_comment_feedback(table, sid, aid, comment) ==
    LET got == get_or_create_feedback_summary(table, sid, aid)
    IN  IF got.raises # "none" THEN [raises |-> got.raises, table |-> table]
        ELSE [raises |-> "none",
              table |-> Committed(table, got, [got.fs EXCEPT !.comment = comment])]

(***************************************************************************)
(* SpecFeedback: up to MaxCalls calls of the three writers on a table that *)
(* starts empty; res is the table, arg the last call, its payload and the  *)
(* table before it.                                                        *)
(***************************************************************************)
MaxCalls == 3

SessionIds == { 1, 2 }
AttemptIds == { 1, 2 }
FeedbackScores == { 60, 75, 90 }

VoiceJsons ==
    { [total_score |-> t, metrics |-> m] :
        t \in FeedbackScores,
        m \in { [id \in { "tremor", "pause", "tone", "speed" } |-> 80],
                [id \in { "tremor" } |-> 70] } }

PoseJsons ==
    { [overall_score |-> t,
       category_scores |-> [shoulder |-> t, head_tilt |-> 80, hand |-> None],
       problem_sections |-> t] : t \in FeedbackScores }

InitFeedback ==
    /\ pc = "serving"
    /\ res = {}
    /\ arg = [n |-> 0]
    /\ NoPipeline

\* one request served: the table is the committed one, or the one before
\* when the writer raised
Serve(op, sid, aid, data, out) ==
    /\ pc = "serving"
    /\ arg.n < MaxCalls
    /\ res' = out.table
    /\ err' = out.raises
    /\ arg' = [n |-> arg.n + 1, op |-> op, session_id |-> sid, attempt_id |-> aid,
               data |-> data, before |-> res]
    /\ UNCHANGED <<pc, tremor, sp_tl, inton, energy, rhythm, tone, grouped, payload>>

VoiceFeedback ==
    \E sid \in SessionIds, aid \in AttemptIds, j \in VoiceJsons :
        Serve("voice", sid, aid, j, create_or_update_voice_feedback(res, sid, aid, j))

PoseFeedback ==
    \E sid \in SessionIds, aid \in AttemptIds, j \in PoseJsons :
        Serve("pose", sid, aid, j, create_or_update_pose_feedback(res, sid, aid, j))

CommentFeedback ==
    \E sid \in SessionIds, aid \in AttemptIds, c \in { "kept", "revised" } :
        Serve("comment", sid, aid, c, create_or_update_comment_feedback(res, sid, aid, c))

NextFeedback == VoiceFeedback \/ PoseFeedback \/ CommentFeedback

SpecFeedback == InitFeedback /\ [][NextFeedback]_vars

\* the rows of a table for the (session_id, attempt_id) of the last call
RowsOfCall(table) ==
    { r \in table : r.session_id = arg.session_id /\ r.attempt_id = arg.attempt_id }

\* the field group the writer op sets
OwnFields(op) ==
    CASE op = "voice" -> VoiceFields
      [] op = "pose" -> PoseFields
      [] OTHER -> CommentFields

\* C29: after any sequence of create_or_update_voice_feedback /
\* create_or_update_pose_feedback / create_or_update_comment_feedback calls
\* for one (session_id, attempt_id), exactly one FeedbackSummary row exists
\* for it, and each update changes only its own field group: a voice update
\* leaves overall_pose, shoulder, head, hand, problem_sections and comment
\* unchanged, and pose and comment updates leave overall_voice, tremor,
\* blank, tone and speed unchanged.
C29_OneRowOwnFields ==
    arg.n >= 1 =>
        /\ Cardinality(RowsOfCall(res)) = 1
        /\ \A now \in RowsOfCall(res) :
              \A f \in (VoiceFields \cup PoseFields \cup CommentFields) \ OwnFields(arg.op) :
                  /\ RowsOfCall(arg.before) = {} => now[f] = None
                  /\ \A was \in RowsOfCall(arg.before) : now[f] = was[f]

\* a writer has raised AttributeError and the table holds no row for the
\* call
WriterRaised ==
    /\ arg.n >= 1
    /\ err = "AttributeError"
    /\ RowsOfCall(res) = {}

\* the three band scores of an intonation summary (the slope score damped
\* for a flat ending), each beside its own configured weight
BandScores(isumm) ==
    LET slope_val == isumm.ending_slope_hz_per_s
        s_slope0 == _safe_band(slope_val, ending_slope_lo, ending_slope_hi)
    IN  << [s |-> _safe_band(isumm.f0_range_st, f0_range_lo, f0_range_hi), w |-> isw_range],
           [s |-> IF IsNum(slope_val) /\ Abs(slope_val) <= flat_slope
                  THEN ((IF s_slope0 = None THEN 0 ELSE s_slope0) * flat_factor) \div 10
                  ELSE s_slope0,
            w |-> isw_slope],
           [s |-> _safe_band(isumm.pitch_var_st, pitch_var_lo, pitch_var_hi), w |-> isw_var] >>

\* the intonation sub-score with every available band score weighted by its
\* own weight
OwnWeighted(isumm) ==
    LET parts == SelectSeq(BandScores(isumm), LAMBDA b : b.s # None)
        sc0 == IF parts = <<>> THEN 0
               ELSE SumSeq([i \in 1..Len(parts) |-> parts[i].w * parts[i].s])
                        \div SumSeq([i \in 1..Len(parts) |-> parts[i].w])
        sc == IF GetLt(isumm.f0_range_st, guard_range_lo)
                 /\ GetLt(isumm.pitch_var_st, guard_var_lo)
              THEN Min(sc0, guard_cap) ELSE sc0
    IN  Clip(sc, 0, Micro)

\* C30: in _intonation_subscore, for every available subset of the three
\* band scores (range, slope, variability), each available score is weighted
\* by its own configured weight (0.65, 0.20, 0.15); an unavailable score
\* never causes another score to be weighted with its weight.
C30_OwnWeights ==
    pc = "toned" =>
        /\ _intonation_subscore(inton) = OwnWeighted(inton)
        /\ (~Available(energy) /\ ~Available(rhythm)) =>
              tone.tone_score = RoundHalfEven(tw_intonation * OwnWeighted(inton), Micro)

\* a summary without a range value whose slope and variability scores differ:
\* the tone score is not the one of the own-weight average
ScoreShiftedByMissingRange ==
    /\ pc = "toned"
    /\ BandScores(inton)[1].s = None
    /\ BandScores(inton)[2].s # None /\ BandScores(inton)[3].s # None
    /\ ~Available(energy) /\ ~Available(rhythm)
    /\ tone.tone_score # RoundHalfEven(tw_intonation * OwnWeighted(inton), Micro)

\* with the range score available the weights are the scores' own
OwnWeightsWithRange ==
    (pc = "toned" /\ BandScores(inton)[1].s # None) =>
        _intonation_subscore(inton) = OwnWeighted(inton)

====
